---- MODULE Spec2Model ----
(***************************************************************************)
(* Car Damage Estimator: POST /api/analyze (src/app/api/analyze/route.ts). *)
(*                                                                         *)
(* Number representation.  JavaScript numbers are modelled as exact        *)
(* fixed-point integers:                                                   *)
(*   severity            tenths        (2.5 is 25)                         *)
(*   confidence          hundredths    (0.75 is 75)                        *)
(*   labor hours         hundredths    (2.16 h is 216)                     *)
(*   percentages/factors hundredths    (0.25 is 25, x1.4 is 140)           *)
(*   raw part prices     cents         (500 USD is 50000)                  *)
(*   money               whole dollars                                     *)
(* Arithmetic is exact; IEEE-754 representation error at exact .5 ties is  *)
(* not modelled.                                                           *)
(*                                                                         *)
(* A JSON value of unknown type is an option: <<>> when the value is       *)
(* missing or not of the type the code tests for with typeof, <<v>> when   *)
(* it is.  A JavaScript number that may be NaN (or a non-number that       *)
(* behaves as NaN in arithmetic) is an option too: <<>> is NaN.            *)
(***************************************************************************)
EXTENDS Integers, Sequences, FiniteSets, TLC

VARIABLES
  policy,       \* process.env knobs read at module load (route.ts 40-68)
  pc,           \* position of the POST handler: idle / vision / pricing / done
  yoloSeeds,    \* the valid detector seeds parsed from the form (route.ts 427-434)
  rawItems,     \* damage_items as returned by the vision model (route.ts 515-517)
  itemsFinal,   \* normalized observations, after the seed fallback (route.ts 551-564)
  uniqueParts,  \* names sent to the pricing model (route.ts 578-589)
  partsPriceMap,\* result of pricePartsDynamicOnce (route.ts 590)
  response,     \* the HTTP response (payload or error)
  \* makeRateLimiter (_shared.ts 38-68)
  windowMs,     \* length of a window, fixed when the limiter is built
  maxRequests,  \* requests allowed per window, fixed when the limiter is built
  map,          \* the bucket: ip -> {count, resetAt}, or NoState for an absent key
  now,          \* Date.now()
  limited,      \* what the limiter returned to the last request
  accepted,     \* history: per ip, the requests accepted since its window opened
  \* withRetry (_shared.ts 70-99)
  tries,        \* opts.tries
  idx,          \* the loop index i
  rpc,          \* position of withRetry: loop / await / backoff / settled
  calls,        \* history: how many times fn was invoked
  attempts,     \* history: how each attempt ended
  lastErr,      \* the error caught last
  late,         \* promises of timed-out attempts that are still pending
  settled,      \* how the promise returned by withRetry settled
  \* the client page (part_002 461-650)
  mode,         \* "upload" or "url"
  file,         \* the chosen File, or null
  imageUrl,     \* the text of the link input
  preview,      \* the image shown to the user
  loading,
  result,       \* the displayed AnalyzePayload, tagged with the image it describes
  error,
  yoloBoxes,    \* the overlay boxes, tagged with the image they were detected on
  inflight      \* position of the running handleSubmit and the image it captured

analyzeVars == <<policy, pc, yoloSeeds, rawItems, itemsFinal, uniqueParts, partsPriceMap, response>>
limiterVars == <<windowMs, maxRequests, map, now, limited, accepted>>
retryVars == <<tries, idx, rpc, calls, attempts, lastErr, late, settled>>
clientVars == <<mode, file, imageUrl, preview, loading, result, error, yoloBoxes, inflight>>
vars == <<analyzeVars, limiterVars, retryVars, clientVars>>

(***************************************************************************)
(* Bounds of the model.                                                    *)
(***************************************************************************)
MaxItems == 2

(***************************************************************************)
(* Options and JavaScript numbers.                                         *)
(***************************************************************************)
None == <<>>
Some(v) == <<v>>
IsSome(o) == Len(o) = 1
Val(o) == o[1]

NaN == <<>>
Num(n) == <<n>>
IsNum(a) == Len(a) = 1
JAdd(a, b) == IF IsNum(a) /\ IsNum(b) THEN Num(a[1] + b[1]) ELSE NaN
JMul(a, b) == IF IsNum(a) /\ IsNum(b) THEN Num(a[1] * b[1]) ELSE NaN
\* the comparison operators of JavaScript: every comparison with NaN is false
JEq(a, b) == IsNum(a) /\ IsNum(b) /\ a[1] = b[1]
JLe(a, b) == IsNum(a) /\ IsNum(b) /\ a[1] <= b[1]
JGe(a, b) == IsNum(a) /\ IsNum(b) /\ a[1] >= b[1]
JGt(a, b) == IsNum(a) /\ IsNum(b) /\ a[1] > b[1]

\* Math.round(n / d) for d > 0: nearest integer, ties towards +infinity
Round(n, d) == (2 * n + d) \div (2 * d)
JRound(a, d) == IF IsNum(a) THEN Num(Round(a[1], d)) ELSE NaN

Max(a, b) == IF a >= b THEN a ELSE b
Min(a, b) == IF a <= b THEN a ELSE b

(***************************************************************************)
(* Environment / policy (route.ts 42-68).  The routing thresholds, the     *)
(* contingency and variance knobs and PARTS_DYNAMIC are read from the      *)
(* environment; the other knobs are kept at their defaults.                *)
(***************************************************************************)
LABOR_RATE == 125
PAINT_PER_PANEL == 300
LABOR_CORRECTION == 140
BLEND_DISCOUNT == 60
PARTS_BASE == 500

DefaultPolicy ==
  [ AUTO_MAX_COST |-> 1500, AUTO_MAX_SEVERITY |-> 20, AUTO_MIN_CONF |-> 75,
    SPEC_MIN_COST |-> 5000, SPEC_MIN_SEVERITY |-> 40,
    CONT_BASE |-> 10, CONT_FRONT_HEAVY |-> 10, CONT_REAR_HEAVY |-> 5, CONT_MAX |-> 30,
    VARIANCE_BASE |-> 15, VARIANCE_SEVERE |-> 25,
    PARTS_DYNAMIC |-> FALSE ]

\* the deployments explored: defaults, defaults with dynamic pricing, and a
\* policy whose AUTO and SPECIALIST ranges overlap and whose contingency cap binds
Policies ==
  { DefaultPolicy,
    [DefaultPolicy EXCEPT !.PARTS_DYNAMIC = TRUE],
    [DefaultPolicy EXCEPT !.AUTO_MAX_COST = 5000, !.AUTO_MAX_SEVERITY = 50,
                          !.AUTO_MIN_CONF = 50, !.SPEC_MIN_COST = 1000,
                          !.SPEC_MIN_SEVERITY = 30, !.CONT_MAX = 15] }

(***************************************************************************)
(* Strings.  The code's string functions are tabulated over the strings    *)
(* the model uses.                                                         *)
(***************************************************************************)
\* String.prototype.trim().toLowerCase()
TrimLower(s) ==
  CASE s = " Bumper " -> "bumper"
    [] s = "Paint Kit" -> "paint kit"
    [] s = "  " -> ""
    [] OTHER -> s

\* /paint/i.test(name), name.includes("paint")
IncludesPaint(s) == s \in {"paint kit", "Paint Kit", "paint-chips"}
IncludesScratch(s) == s \in {"scratch"}
StartsWithFront(s) == s \in {"front", "front-left", "front-right", "frontside"}
StartsWithRear(s) == s \in {"rear", "rear-left", "rear-right"}

\* keys every object literal inherits from Object.prototype: obj[key] is a
\* function (not undefined, not a number) unless obj has an own property key
IsPrototypeKey(s) == s \in {"constructor"}

Zone == {"front", "front-left", "left", "rear-left", "rear", "rear-right", "right",
         "front-right", "roof", "unknown"}
Part == {"bumper", "fender", "door", "hood", "trunk", "quarter-panel", "headlight",
         "taillight", "grille", "mirror", "windshield", "wheel", "unknown"}
DamageType == {"dent", "scratch", "crack", "paint-chips", "broken", "bent", "missing",
               "glass-crack", "unknown"}

(***************************************************************************)
(* Bodyshop heuristics (route.ts 114-147).                                 *)
(***************************************************************************)
\* base hours by part, in tenths of an hour
BaseHours(part) ==
  CASE part = "bumper" -> 12
    [] part = "door" -> 15
    [] part = "fender" -> 12
    [] part = "hood" -> 14
    [] part = "quarter-panel" -> 20
    [] part \in {"headlight", "taillight"} -> 6
    [] part = "grille" -> 8
    [] part = "mirror" -> 5
    [] part = "windshield" -> 12
    [] part = "wheel" -> 7
    [] part = "trunk" -> 14
    [] OTHER -> 10

\* severity multiplier in tenths; sev is in tenths
SevMult(sev) ==
  IF sev <= 10 THEN 5
  ELSE IF sev = 20 THEN 8
  ELSE IF sev = 30 THEN 10
  ELSE IF sev = 40 THEN 14
  ELSE 18

\* hoursFor without the severity multiplier
hoursFor_NoSeverityScaling(part, sev) == BaseHours(part) * 10

\* +(base * sevMult).toFixed(2), in hundredths of an hour
hoursFor(part, sev) == BaseHours(part) * SevMult(sev)

needsPaintFor(type, sev, part) ==
  IF part \in {"windshield", "headlight", "taillight", "mirror"} THEN FALSE
  ELSE IF IncludesScratch(type) \/ IncludesPaint(type) THEN TRUE
  ELSE sev >= 20

\* minorDentPDR with a floor of one hour instead of half an hour
minorDentPDR_FloorOneHour(d) ==
  LET sidePanel == d.part \in {"door", "fender", "quarter-panel"}
      isMinorDent == d.damage_type = "dent" /\ d.severity <= 20
      base == d.est_labor_hours
  IN IF sidePanel /\ isMinorDent
     THEN [usePDR |-> TRUE, adjHours |-> Max(100, Round(base * 60, 100)), adjPaint |-> FALSE]
     ELSE [usePDR |-> FALSE, adjHours |-> d.est_labor_hours, adjPaint |-> d.needs_paint]

\* minorDentPDR without the half-hour floor on the reduced hours
minorDentPDR_NoFloor(d) ==
  LET sidePanel == d.part \in {"door", "fender", "quarter-panel"}
      isMinorDent == d.damage_type = "dent" /\ d.severity <= 20
      base == d.est_labor_hours
  IN IF sidePanel /\ isMinorDent
     THEN [usePDR |-> TRUE, adjHours |-> Round(base * 60, 100), adjPaint |-> FALSE]
     ELSE [usePDR |-> FALSE, adjHours |-> d.est_labor_hours, adjPaint |-> d.needs_paint]

minorDentPDR(d) ==
  LET sidePanel == d.part \in {"door", "fender", "quarter-panel"}
      isMinorDent == d.damage_type = "dent" /\ d.severity <= 20
      base == d.est_labor_hours
  IN IF sidePanel /\ isMinorDent
     THEN [usePDR |-> TRUE, adjHours |-> Max(50, Round(base * 60, 100)), adjPaint |-> FALSE]
     ELSE [usePDR |-> FALSE, adjHours |-> d.est_labor_hours, adjPaint |-> d.needs_paint]

(***************************************************************************)
(* Parts pricing guard (route.ts 152-181).                                 *)
(***************************************************************************)
BandNames == {"bumper", "fender", "door", "hood", "quarter-panel", "headlight",
              "taillight", "grille", "mirror", "windshield", "wheel", "trunk",
              "door handle", "handle", "bracket", "clip", "emblem"}

PART_BANDS(n) ==
  CASE n = "bumper" -> [min |-> 250, max |-> 1200]
    [] n = "fender" -> [min |-> 150, max |-> 600]
    [] n \in {"door", "hood", "trunk"} -> [min |-> 250, max |-> 900]
    [] n = "quarter-panel" -> [min |-> 300, max |-> 1200]
    [] n = "headlight" -> [min |-> 120, max |-> 800]
    [] n = "taillight" -> [min |-> 80, max |-> 600]
    [] n = "grille" -> [min |-> 120, max |-> 500]
    [] n = "mirror" -> [min |-> 60, max |-> 300]
    [] n = "windshield" -> [min |-> 180, max |-> 600]
    [] n = "wheel" -> [min |-> 120, max |-> 900]
    [] n \in {"door handle", "handle"} -> [min |-> 40, max |-> 180]
    [] n = "bracket" -> [min |-> 30, max |-> 200]
    [] n = "clip" -> [min |-> 2, max |-> 15]
    [] n = "emblem" -> [min |-> 10, max |-> 60]

\* raw is a JavaScript number in cents (NaN allowed); the result is a
\* JavaScript number in dollars.  PART_BANDS[norm] of a key inherited from
\* Object.prototype is a function: truthy, with min and max undefined, so
\* Math.min(undefined, Math.max(undefined, val)) is NaN.
guardPartPrice(name, raw) ==
  LET norm == TrimLower(name)
      rawOrBase == IF IsNum(raw) /\ raw[1] # 0 THEN raw[1] ELSE PARTS_BASE * 100
      val == Max(1, Round(rawOrBase, 100))
  IN IF norm \in BandNames
       THEN Num(Min(PART_BANDS(norm).max, Max(PART_BANDS(norm).min, val)))
     ELSE IF IsPrototypeKey(norm) THEN NaN
     ELSE Num(Max(50, val))

(***************************************************************************)
(* Price maps: plain objects keyed by part name.  A map is a function from *)
(* the names of the model to an option: None when the object has no own    *)
(* property of that name, Some(price) when it has.                         *)
(***************************************************************************)
PartNames == {"bumper", "door", "fender", "quarter-panel", "windshield", "spoiler",
              "clip", "widget", "paint kit", "constructor"}

EmptyMap == [n \in PartNames |-> None]
OwnKeys(m) == {n \in PartNames : IsSome(m[n])}

\* priceMap[name] ?? guardPartPrice(name, PARTS_BASE): an own property wins,
\* then a property inherited from Object.prototype (a function, which is not
\* nullish and not a number), then the guarded baseline
UnitPrice(priceMap, name) ==
  IF IsSome(priceMap[name]) THEN Val(priceMap[name])
  ELSE IF IsPrototypeKey(name) THEN NaN
  ELSE guardPartPrice(name, Num(PARTS_BASE * 100))

\* pricePartsDynamicOnce (route.ts 183-222) once the model replied: reply.ok
\* is FALSE when the call threw or the content is not JSON (catch -> {}),
\* otherwise reply.prices maps each returned key to Some(cents) for a finite
\* number and to None for any other JSON value
PriceMapOf(reply) ==
  IF ~reply.ok THEN EmptyMap
  ELSE [n \in PartNames |->
          IF n \in DOMAIN reply.prices
            THEN Some(guardPartPrice(n, IF IsSome(reply.prices[n])
                                          THEN Num(Val(reply.prices[n]))
                                          ELSE Num(PARTS_BASE * 100)))
            ELSE None]

(***************************************************************************)
(* Confidence aggregation and routing (route.ts 227-264).                  *)
(***************************************************************************)
RECURSIVE SumSeq(_)
SumSeq(s) == IF s = <<>> THEN 0 ELSE Head(s) + SumSeq(Tail(s))

RECURSIVE MaxSeq(_, _)
MaxSeq(s, m) == IF s = <<>> THEN m ELSE MaxSeq(Tail(s), Max(m, Head(s)))

\* w = 1 + 0.2 * (sev - 1), scaled by 50: 40 + sev (sev in tenths)
Weight(d) == 40 + d.severity

\* aggregateConfidence answering 0 instead of 0.5 for an empty list
aggregateConfidence_EmptyIsZero(items) ==
  LET numr == SumSeq([i \in 1..Len(items) |-> items[i].confidence * Weight(items[i])])
      den == SumSeq([i \in 1..Len(items) |-> Weight(items[i])])
  IN IF den # 0 THEN [num |-> numr, den |-> den] ELSE [num |-> 0, den |-> 1]

\* aggregateConfidence as the fraction num / den (in hundredths); 0.5 when den = 0
aggregateConfidence(items) ==
  LET numr == SumSeq([i \in 1..Len(items) |-> items[i].confidence * Weight(items[i])])
      den == SumSeq([i \in 1..Len(items) |-> Weight(items[i])])
  IN IF den # 0 THEN [num |-> numr, den |-> den] ELSE [num |-> 50, den |-> 1]

\* routeDecision sending a low aggregate confidence (< 0.5) to the specialist
routeDecision_LowConfidenceToSpecialist(items, estimate, pol) ==
  LET maxSev == MaxSeq([i \in 1..Len(items) |-> items[i].severity], 0)
      agg == aggregateConfidence(items)
      hi == estimate.cost_high
  IN IF /\ maxSev <= pol.AUTO_MAX_SEVERITY
        /\ JLe(hi, Num(pol.AUTO_MAX_COST))
        /\ agg.num >= pol.AUTO_MIN_CONF * agg.den
       THEN "AUTO-APPROVE"
     ELSE IF \/ maxSev >= pol.SPEC_MIN_SEVERITY
             \/ JGe(hi, Num(pol.SPEC_MIN_COST))
             \/ agg.num < 50 * agg.den
       THEN "SPECIALIST"
     ELSE "INVESTIGATE"

\* routeDecision with the confidence test of the AUTO rule left out
routeDecision_NoConfidence(items, estimate, pol) ==
  LET maxSev == MaxSeq([i \in 1..Len(items) |-> items[i].severity], 0)
      hi == estimate.cost_high
  IN IF maxSev <= pol.AUTO_MAX_SEVERITY /\ JLe(hi, Num(pol.AUTO_MAX_COST))
       THEN "AUTO-APPROVE"
     ELSE IF maxSev >= pol.SPEC_MIN_SEVERITY \/ JGe(hi, Num(pol.SPEC_MIN_COST))
       THEN "SPECIALIST"
     ELSE "INVESTIGATE"

\* routeDecision with the SPECIALIST rule tried before the AUTO rule
routeDecision_SpecialistFirst(items, estimate, pol) ==
  LET maxSev == MaxSeq([i \in 1..Len(items) |-> items[i].severity], 0)
      agg == aggregateConfidence(items)
      hi == estimate.cost_high
  IN IF maxSev >= pol.SPEC_MIN_SEVERITY \/ JGe(hi, Num(pol.SPEC_MIN_COST))
       THEN "SPECIALIST"
     ELSE IF /\ maxSev <= pol.AUTO_MAX_SEVERITY
             /\ JLe(hi, Num(pol.AUTO_MAX_COST))
             /\ agg.num >= pol.AUTO_MIN_CONF * agg.den
       THEN "AUTO-APPROVE"
     ELSE "INVESTIGATE"

routeDecision(items, estimate, pol) ==
  LET maxSev == MaxSeq([i \in 1..Len(items) |-> items[i].severity], 0)
      agg == aggregateConfidence(items)
      hi == estimate.cost_high
  IN IF /\ maxSev <= pol.AUTO_MAX_SEVERITY
        /\ JLe(hi, Num(pol.AUTO_MAX_COST))
        /\ agg.num >= pol.AUTO_MIN_CONF * agg.den
       THEN "AUTO-APPROVE"
     ELSE IF maxSev >= pol.SPEC_MIN_SEVERITY \/ JGe(hi, Num(pol.SPEC_MIN_COST))
       THEN "SPECIALIST"
     ELSE "INVESTIGATE"

(***************************************************************************)
(* Estimation roll-up (route.ts 269-414).                                  *)
(***************************************************************************)
\* isLightBlend without the severity test
isLightBlend_AnySeverity(d) ==
  IncludesScratch(d.damage_type) \/ IncludesPaint(d.damage_type)

isLightBlend(d) ==
  (IncludesScratch(d.damage_type) \/ IncludesPaint(d.damage_type)) /\ d.severity <= 20

\* the candidates with the fallback to the observation's part at any severity
Candidates_FallbackAnySeverity(d) ==
  IF Len(d.likely_parts) > 0 THEN d.likely_parts
  ELSE IF d.part # "" /\ d.part # "unknown" THEN <<d.part>>
  ELSE <<>>

\* the candidate part names of one observation (route.ts 319-325)
Candidates(d) ==
  IF Len(d.likely_parts) > 0 THEN d.likely_parts
  ELSE IF d.severity >= 40 /\ d.part # "" /\ d.part # "unknown" THEN <<d.part>>
  ELSE <<>>

\* the names the inner loop prices: normalized, empty and paint names skipped
PricedNames(d) ==
  LET c == Candidates(d)
      n == [i \in 1..Len(c) |-> TrimLower(c[i])]
      Keep(x) == x # "" /\ ~IncludesPaint(x)
  IN SelectSeq(n, Keep)

\* partCounts[name] = (partCounts[name] ?? 0) + 1, partCounts kept as the
\* sequence of its own entries in insertion order
CountOne(counts, name) ==
  IF \E i \in 1..Len(counts) : counts[i].name = name
    THEN [i \in 1..Len(counts) |->
            IF counts[i].name = name THEN [counts[i] EXCEPT !.n = @ + 1] ELSE counts[i]]
    ELSE Append(counts, [name |-> name, n |-> 1])

RECURSIVE CountAll(_, _)
CountAll(counts, names) ==
  IF names = <<>> THEN counts ELSE CountAll(CountOne(counts, Head(names)), Tail(names))

RECURSIVE JSumSeq(_)
JSumSeq(s) == IF s = <<>> THEN Num(0) ELSE JAdd(Head(s), JSumSeq(Tail(s)))

\* one pass of the loop body over observation d0 (route.ts 300-352)
RollUpOne(acc, d0, priceMap) ==
  LET sev == d0.severity
      pdr == minorDentPDR(d0)
      estHours == pdr.adjHours
      needsPaint == pdr.adjPaint
      paintCostLine ==
        IF needsPaint
          THEN Round(PAINT_PER_PANEL * (IF isLightBlend(d0) THEN BLEND_DISCOUNT ELSE 100), 100)
          ELSE 0
      names == PricedNames(d0)
      partsCostLine == JSumSeq([i \in 1..Len(names) |-> UnitPrice(priceMap, names[i])])
      z == IF d0.zone = "" THEN "unknown" ELSE d0.zone
  IN [ laborHours |-> acc.laborHours + estHours,
       partsTotal |-> JAdd(acc.partsTotal, partsCostLine),
       partCounts |-> CountAll(acc.partCounts, names),
       hasAnySev3Plus |-> acc.hasAnySev3Plus \/ sev >= 30,
       hasFrontSevere |-> acc.hasFrontSevere \/ (sev >= 40 /\ StartsWithFront(z)),
       hasRearSevere |-> acc.hasRearSevere \/ (sev >= 40 /\ StartsWithRear(z)),
       lines |-> Append(acc.lines,
                   [ zone |-> z, part |-> d0.part, est_labor_hours |-> estHours,
                     paint_cost |-> paintCostLine, parts_cost |-> partsCostLine ]) ]

RECURSIVE RollUp(_, _, _)
RollUp(items, priceMap, i) ==
  IF i = 0
    THEN [ laborHours |-> 0, partsTotal |-> Num(0), partCounts |-> <<>>,
           hasAnySev3Plus |-> FALSE, hasFrontSevere |-> FALSE, hasRearSevere |-> FALSE,
           lines |-> <<>> ]
    ELSE RollUpOne(RollUp(items, priceMap, i - 1), items[i], priceMap)

\* one parts_detail row whose line_total forgets the quantity
DetailRow_IgnoresQty(entry, priceMap) ==
  LET unit == UnitPrice(priceMap, entry.name)
      qty == IF IsPrototypeKey(entry.name) THEN NaN ELSE Num(entry.n)
  IN [name |-> entry.name, qty |-> qty, unit_price |-> unit, line_total |-> unit]

\* one parts_detail row (route.ts 360-363); the count stored under a key
\* inherited from Object.prototype is a string, not a number
DetailRow(entry, priceMap) ==
  LET unit == UnitPrice(priceMap, entry.name)
      qty == IF IsPrototypeKey(entry.name) THEN NaN ELSE Num(entry.n)
  IN [name |-> entry.name, qty |-> qty, unit_price |-> unit, line_total |-> JMul(qty, unit)]

\* .sort((a, b) => b.line_total - a.line_total): stable, descending; a NaN
\* difference compares as equal
RECURSIVE InsertRow(_, _)
InsertRow(sorted, row) ==
  IF sorted = <<>> THEN <<row>>
  ELSE LET last == sorted[Len(sorted)]
       IN IF JGt(row.line_total, last.line_total)
            THEN Append(InsertRow(SubSeq(sorted, 1, Len(sorted) - 1), row), last)
            ELSE Append(sorted, row)

RECURSIVE SortRows(_, _)
SortRows(rows, i) == IF i = 0 THEN <<>> ELSE InsertRow(SortRows(rows, i - 1), rows[i])

\* the contingency percentage with the front and rear bonuses both added
ContPct_FrontAndRearAdded(acc, pol) ==
  Min((IF acc.hasAnySev3Plus THEN pol.CONT_BASE ELSE 0)
      + (IF acc.hasFrontSevere THEN pol.CONT_FRONT_HEAVY ELSE 0)
      + (IF acc.hasRearSevere THEN pol.CONT_REAR_HEAVY ELSE 0),
      pol.CONT_MAX)

\* the contingency percentage (route.ts 370-374)
ContPct(acc, pol) ==
  Min((IF acc.hasAnySev3Plus THEN pol.CONT_BASE ELSE 0)
      + (IF acc.hasFrontSevere THEN pol.CONT_FRONT_HEAVY
         ELSE IF acc.hasRearSevere THEN pol.CONT_REAR_HEAVY ELSE 0),
      pol.CONT_MAX)

\* the subtotal with the contingency left out
SubtotalOf_NoContingency(labor, paint, partsTotal, contingency) ==
  JAdd(JAdd(Num(labor), Num(paint)), partsTotal)

\* subtotal = labor + paint + partsTotal + contingency (route.ts 379)
SubtotalOf(labor, paint, partsTotal, contingency) ==
  JAdd(JAdd(JAdd(Num(labor), Num(paint)), partsTotal), contingency)

\* the variance policy (route.ts 381-385)
VarianceFor_Sev3Widens(items, contingency, pol) ==
  IF (\E i \in 1..Len(items) : items[i].severity >= 30) \/ JGt(contingency, Num(0))
    THEN pol.VARIANCE_SEVERE ELSE pol.VARIANCE_BASE

VarianceFor(items, contingency, pol) ==
  IF (\E i \in 1..Len(items) : items[i].severity >= 40) \/ JGt(contingency, Num(0))
    THEN pol.VARIANCE_SEVERE ELSE pol.VARIANCE_BASE

\* parts_detail: one row per counted name, highest line_total first
\* (route.ts 359-364)
PartsDetail(partCounts, priceMap) ==
  SortRows([i \in 1..Len(partCounts) |-> DetailRow(partCounts[i], priceMap)], Len(partCounts))

\* the parts total after the correction step (route.ts 366-367): the sum of
\* the rows replaces the running total when the two differ
PartsTotalOf(parts_detail, runningTotal) ==
  LET partsFromDetail == JSumSeq([i \in 1..Len(parts_detail) |-> parts_detail[i].line_total])
  IN IF ~JEq(partsFromDetail, runningTotal) THEN partsFromDetail ELSE runningTotal

\* contingency = round((labor + partsTotal) * contPct) (route.ts 375-377)
ContingencyOf(labor, partsTotal, contPct) ==
  JRound(JMul(JAdd(Num(labor), partsTotal), Num(contPct)), 100)

\* the returned object (route.ts 387-413)
EstimateOf(acc, priceMap, laborPreCorrection, labor, paint, parts_detail, partsTotal, contPct, contingency, subtotal, variance) ==
  [ cost_low |-> JRound(JMul(subtotal, Num(100 - variance)), 100),
    cost_high |-> JRound(JMul(subtotal, Num(100 + variance)), 100),
    assumptions |-> [contPct |-> contPct, variance |-> variance],
    breakdown |->
      [ labor |-> labor,
        labor_pre_correction |-> laborPreCorrection,
        paint |-> paint,
        paint_units |-> Cardinality({i \in 1..Len(acc.lines) : acc.lines[i].paint_cost > 0}),
        parts |-> partsTotal,
        contingency |-> contingency,
        dynamic_parts_used |-> OwnKeys(priceMap) # {},
        lines |-> acc.lines,
        parts_detail |-> parts_detail ] ]

\* lines 379-385: subtotal and variance, from the contingency
EstimateFromContingency(items, priceMap, pol, acc, laborPreCorrection, labor, paint, parts_detail, partsTotal, contPct, contingency) ==
  EstimateOf(acc, priceMap, laborPreCorrection, labor, paint, parts_detail, partsTotal,
             contPct, contingency,
             SubtotalOf(labor, paint, partsTotal, contingency),
             VarianceFor(items, contingency, pol))

\* lines 366-377: parts total, contingency percentage, contingency
EstimateFromTotals(items, priceMap, pol, acc, laborPreCorrection, labor, paint, parts_detail, partsTotal, contPct) ==
  EstimateFromContingency(items, priceMap, pol, acc, laborPreCorrection, labor, paint,
                          parts_detail, partsTotal, contPct,
                          ContingencyOf(labor, partsTotal, contPct))

\* lines 354-364: labor dollars, paint dollars, parts_detail, from the
\* accumulators of the loop
EstimateFromRollUp(items, priceMap, pol, acc, laborPreCorrection, parts_detail) ==
  EstimateFromTotals(items, priceMap, pol, acc, laborPreCorrection,
                     Round(laborPreCorrection * LABOR_CORRECTION, 100),
                     SumSeq([i \in 1..Len(acc.lines) |-> acc.lines[i].paint_cost]),
                     parts_detail,
                     PartsTotalOf(parts_detail, acc.partsTotal),
                     ContPct(acc, pol))

\* estimateFromItems (route.ts 269-414)
estimateFromAccumulators(items, priceMap, pol, acc) ==
  EstimateFromRollUp(items, priceMap, pol, acc,
                     Round(acc.laborHours * LABOR_RATE, 100),
                     PartsDetail(acc.partCounts, priceMap))

estimateFromItems(items, priceMap, pol) ==
  estimateFromAccumulators(items, priceMap, pol, RollUp(items, priceMap, Len(items)))

(***************************************************************************)
(* Normalizer (route.ts 426-434, 515-589).                                 *)
(***************************************************************************)
\* isYoloSeed: confidence is a number and bbox_rel is four numbers in [0,1]
isYoloSeed(v) == IsSome(v.confidence) /\ IsSome(v.bbox_rel)

\* typeof confRaw === "number" ? Math.max(0, Math.min(1, confRaw)) : 0.5
ClampConfidence_NoUpperBound(confRaw) ==
  IF IsSome(confRaw) THEN Max(0, Val(confRaw)) ELSE 50

ClampConfidence(confRaw) ==
  IF IsSome(confRaw) THEN Max(0, Min(100, Val(confRaw))) ELSE 50

\* one raw damage record -> DamageItem (route.ts 519-548)
NormalizeItem(d) ==
  LET sevRaw == d.severity
      sev == IF IsSome(sevRaw) /\ Val(sevRaw) >= 10 /\ Val(sevRaw) <= 50 THEN Val(sevRaw) ELSE 20
      part == IF IsSome(d.part) THEN Val(d.part) ELSE "unknown"
      hrs == IF IsSome(d.est_labor_hours) THEN Val(d.est_labor_hours) ELSE hoursFor(part, sev)
      dmgType == IF IsSome(d.damage_type) THEN Val(d.damage_type) ELSE "unknown"
      needs == IF IsSome(d.needs_paint) THEN Val(d.needs_paint)
               ELSE needsPaintFor(dmgType, sev, part)
      conf == ClampConfidence(d.confidence)
  IN [ zone |-> IF IsSome(d.zone) THEN Val(d.zone) ELSE "unknown",
       part |-> part,
       damage_type |-> dmgType,
       severity |-> sev,
       confidence |-> conf,
       est_labor_hours |-> hrs,
       needs_paint |-> needs,
       likely_parts |-> IF IsSome(d.likely_parts) THEN Val(d.likely_parts) ELSE <<>>,
       bbox_rel |-> d.bbox_rel ]

\* a detector seed as a degenerate observation (route.ts 554-564)
SeedItem(b) ==
  [ zone |-> "unknown", part |-> "unknown", damage_type |-> "unknown",
    severity |-> 20,
    confidence |-> Max(0, Min(100, Val(b.confidence))),
    est_labor_hours |-> hoursFor("unknown", 20),
    needs_paint |-> FALSE,
    likely_parts |-> <<>>,
    bbox_rel |-> b.bbox_rel ]

\* the seeds appended to the normalized records instead of replacing an empty list
ItemsFinal_SeedsAppended(rawList, seeds) ==
  [i \in 1..Len(rawList) |-> NormalizeItem(rawList[i])]
    \o [i \in 1..Len(seeds) |-> SeedItem(seeds[i])]

\* items.length > 0 ? items : yoloSeeds.map(...)
ItemsFinal(rawList, seeds) ==
  IF Len(rawList) > 0
    THEN [i \in 1..Len(rawList) |-> NormalizeItem(rawList[i])]
    ELSE [i \in 1..Len(seeds) |-> SeedItem(seeds[i])]

\* the names sent to the pricing model (route.ts 578-589)
UniqueParts(items) ==
  LET Listed(d) == IF Len(d.likely_parts) > 0 THEN d.likely_parts
                   ELSE IF d.severity >= 40 /\ d.part # "" /\ d.part # "unknown"
                     THEN <<d.part>> ELSE <<>>
  IN UNION { {TrimLower(Listed(items[i])[j]) : j \in 1..Len(Listed(items[i]))} :
             i \in 1..Len(items) } \ {""}

(***************************************************************************)
(* Inputs: what the form, the vision model and the pricing model can send. *)
(***************************************************************************)
Raw(sev, part, type, zone, conf, hrs, paint, lp) ==
  [ severity |-> sev, part |-> part, damage_type |-> type, zone |-> zone,
    confidence |-> conf, est_labor_hours |-> hrs, needs_paint |-> paint,
    likely_parts |-> lp, bbox_rel |-> None ]

\* JSON values of severity: missing/non-number, 0, 1, 2, 2.5, 3, 4, 5, 6
SeverityValues == {None, Some(0), Some(10), Some(20), Some(25), Some(30), Some(40),
                   Some(50), Some(60)}
PartValues == {None, Some("door"), Some("fender"), Some("quarter-panel"), Some("bumper"),
               Some("windshield"), Some("spoiler")}
TypeValues == {None, Some("dent"), Some("scratch"), Some("paint-chips"), Some("rust")}
ZoneValues == {None, Some("front-left"), Some("rear"), Some("frontside")}
\* confidence: missing/non-number, -0.2, 0.3, 0.9, 1.7
ConfidenceValues == {None, Some(-20), Some(30), Some(90), Some(170)}
\* est_labor_hours: missing/non-number, -3, 0, 0.6, 20
HoursValues == {None, Some(-300), Some(0), Some(60), Some(2000)}
PaintValues == {None, Some(TRUE), Some(FALSE)}
LikelyPartsValues ==
  { None, Some(<<>>), Some(<<"bumper">>), Some(<<" Bumper ", "bumper">>),
    Some(<<"Paint Kit", "clip">>), Some(<<"constructor">>), Some(<<"widget", "  ">>) }

\* single records: every combination of the fields the heuristics couple,
\* and every combination of the fields routing and parts pricing couple
SingleRaws ==
  { Raw(sev, part, type, Some("left"), Some(90), hrs, paint, Some(<<>>)) :
      sev \in SeverityValues, part \in PartValues, type \in TypeValues,
      hrs \in HoursValues, paint \in PaintValues }
  \cup
  { Raw(sev, Some("bumper"), Some("broken"), zone, conf, None, None, lp) :
      sev \in SeverityValues, zone \in ZoneValues, conf \in ConfidenceValues,
      lp \in LikelyPartsValues }

\* records combined into lists of several observations
CorpusRaws ==
  { Raw(Some(50), Some("bumper"), Some("broken"), Some("front"), Some(90), None, None,
        Some(<<"bumper">>)),
    Raw(Some(40), Some("door"), Some("dent"), Some("rear"), Some(60), None, None, Some(<<>>)),
    Raw(Some(10), Some("door"), Some("dent"), Some("left"), Some(95), Some(60), Some(TRUE),
        Some(<<>>)),
    Raw(Some(20), Some("bumper"), Some("scratch"), Some("front"), Some(80), None, Some(TRUE),
        Some(<<"Paint Kit", "bumper">>)),
    Raw(Some(30), Some("windshield"), Some("glass-crack"), Some("roof"), Some(30), Some(0),
        Some(FALSE), Some(<<>>)),
    Raw(Some(20), Some("bumper"), Some("dent"), Some("front"), Some(90), None, None,
        Some(<<"bumper", " Bumper ", "clip">>)) }

RECURSIVE ListsOf(_, _)
ListsOf(S, n) ==
  IF n = 0 THEN {<<>>}
  ELSE LET shorter == ListsOf(S, n - 1)
       IN shorter \cup {Append(l, r) : l \in {x \in shorter : Len(x) = n - 1}, r \in S}

RawLists == ListsOf(CorpusRaws, MaxItems) \cup {<<r>> : r \in SingleRaws}

\* the yolo form field after JSON.parse: no seeds, one valid seed, a valid
\* seed with confidence 1.5 next to a seed without a numeric confidence
RawSeed(conf, box) == [confidence |-> conf, bbox_rel |-> box]
SeedInputs ==
  { <<>>,
    <<RawSeed(Some(80), Some(1))>>,
    <<RawSeed(Some(150), Some(1)), RawSeed(None, Some(2)), RawSeed(Some(40), None)>> }

\* the damage lists tried with a request: every list when the request has
\* no seeds, the lists of corpus records when it has
RawListsFor(seeds) == IF seeds = <<>> THEN RawLists ELSE ListsOf(CorpusRaws, MaxItems)

\* prices the pricing model can return for a key: not a finite number, 0,
\* -5, 40.50, 700, 5000 (in cents)
PriceValues == {None, Some(0), Some(-500), Some(4050), Some(70000), Some(500000)}

\* replies of the pricing model: a failure, or one price for a subset of the
\* requested names
PricingReplies(names) ==
  { [ok |-> FALSE, prices |-> <<>>] }
  \cup { [ok |-> TRUE, prices |-> [n \in K |-> v]] : K \in SUBSET names, v \in PriceValues }

(***************************************************************************)
(* POST /api/analyze (route.ts 419-631), one action per stretch of the     *)
(* handler between two awaits on an external collaborator.                 *)
(***************************************************************************)
ErrorResponse(code, status) ==
  [ kind |-> "error", status |-> status, error_code |-> code,
    damage_items |-> <<>>, estimate |-> <<>>, decision |-> "" ]

\* lines 592-625: estimate, routing, payload
Payload(items, priceMap) ==
  LET estimate == estimateFromItems(items, priceMap, policy)
  IN [ kind |-> "payload", status |-> 200, error_code |-> "",
       damage_items |-> items, estimate |-> estimate,
       decision |-> routeDecision(items, estimate, policy) ]

(***************************************************************************)
(* The rate limiter of _shared.ts.  Times are milliseconds.                *)
(***************************************************************************)
MaxNow == 2000

\* String.split(",")[0].trim() on the x-forwarded-for values of the model
FirstEntryTrimmed(xf) ==
  CASE xf = "10.0.0.1" -> "10.0.0.1"
    [] xf = " 10.0.0.1 , 10.0.0.9" -> "10.0.0.1"
    [] xf = ",10.0.0.9" -> ""
    [] OTHER -> ""

\* the headers a request carries: x-forwarded-for and x-real-ip
Requests ==
  [ xff : {None, Some("10.0.0.1"), Some(" 10.0.0.1 , 10.0.0.9"), Some(",10.0.0.9")},
    xreal : {None, Some("10.0.0.2")} ]

clientIp(req) ==
  LET xf == IF req.xff = None THEN "" ELSE req.xff[1]
      first == FirstEntryTrimmed(xf)
  IN IF first # "" THEN first
     ELSE IF req.xreal # None /\ req.xreal[1] # "" THEN req.xreal[1]
     ELSE "0.0.0.0"

IPs == {clientIp(req) : req \in Requests}

\* Math.ceil(n / d) for d > 0
CeilDiv(n, d) == -((-n) \div d)

\* the limiter that counts a request only after comparing with count > maxRequests
limiter_OneTooMany(req) ==
  LET ip == clientIp(req)
      s == map[ip]
  IN IF s = None \/ s[1].resetAt <= now
       THEN /\ map' = [map EXCEPT ![ip] = Some([count |-> 1, resetAt |-> now + windowMs])]
            /\ limited' = Some([ip |-> ip, ok |-> TRUE, res |-> None])
            /\ accepted' = [accepted EXCEPT ![ip] = 1]
     ELSE IF s[1].count > maxRequests
       THEN /\ limited' = Some([ip |-> ip, ok |-> FALSE,
                                res |-> Some([status |-> 429, error_code |-> "E_RATE_LIMIT",
                                              retryAfter |-> Max(0, CeilDiv(s[1].resetAt - now, 1000))])])
            /\ UNCHANGED <<map, accepted>>
     ELSE /\ map' = [map EXCEPT ![ip] = Some([count |-> s[1].count + 1, resetAt |-> s[1].resetAt])]
          /\ limited' = Some([ip |-> ip, ok |-> TRUE, res |-> None])
          /\ accepted' = [accepted EXCEPT ![ip] = @ + 1]

\* lines 51-67: the function makeRateLimiter returns, applied to one request
limiter(req) ==
  LET ip == clientIp(req)
      s == map[ip]
  IN IF s = None \/ s[1].resetAt <= now
       THEN /\ map' = [map EXCEPT ![ip] = Some([count |-> 1, resetAt |-> now + windowMs])]
            /\ limited' = Some([ip |-> ip, ok |-> TRUE, res |-> None])
            /\ accepted' = [accepted EXCEPT ![ip] = 1]
     ELSE IF s[1].count >= maxRequests
       THEN /\ limited' = Some([ip |-> ip, ok |-> FALSE,
                                res |-> Some([status |-> 429, error_code |-> "E_RATE_LIMIT",
                                              retryAfter |-> Max(0, CeilDiv(s[1].resetAt - now, 1000))])])
            /\ UNCHANGED <<map, accepted>>
     ELSE /\ map' = [map EXCEPT ![ip] = Some([count |-> s[1].count + 1, resetAt |-> s[1].resetAt])]
          /\ limited' = Some([ip |-> ip, ok |-> TRUE, res |-> None])
          /\ accepted' = [accepted EXCEPT ![ip] = @ + 1]

LimiterParked ==
  /\ windowMs = 1000
  /\ maxRequests = 1
  /\ map = [ip \in IPs |-> None]
  /\ now = 0
  /\ limited = None
  /\ accepted = [ip \in IPs |-> 0]

\* a limiter is built over an empty bucket (lines 38-49)
LimiterInit ==
  /\ windowMs \in {1000, 1500}
  /\ maxRequests \in {1, 2}
  /\ map = [ip \in IPs |-> None]
  /\ now = 0
  /\ limited = None
  /\ accepted = [ip \in IPs |-> 0]

\* a request reaches the limiter
LimiterRequest ==
  /\ \E req \in Requests : limiter(req)
  /\ UNCHANGED <<windowMs, maxRequests, now>>
  /\ UNCHANGED <<analyzeVars, retryVars, clientVars>>

\* time passes between two requests
LimiterTick ==
  /\ now < MaxNow
  /\ \E d \in {500, 1000} : now' = now + d
  /\ UNCHANGED <<windowMs, maxRequests, map, limited, accepted>>
  /\ UNCHANGED <<analyzeVars, retryVars, clientVars>>

(***************************************************************************)
(* withRetry of _shared.ts.  fn is the environment: each invocation        *)
(* fulfils, rejects, or stays pending until the timer of withTimeout       *)
(* fires (and may settle later, which nothing observes).                   *)
(***************************************************************************)
MaxTries == 3

FnValues == {"v1", "v2"}
FnErrors == {"e1", "e2"}

RetryParked ==
  /\ tries = 0
  /\ idx = 0
  /\ rpc = "loop"
  /\ calls = 0
  /\ attempts = <<>>
  /\ lastErr = None
  /\ late = 0
  /\ settled = None

\* lines 74-78: the options are read, lastErr is undefined, idx = 0
RetryInit ==
  /\ tries \in 0..MaxTries
  /\ idx = 0
  /\ rpc = "loop"
  /\ calls = 0
  /\ attempts = <<>>
  /\ lastErr = None
  /\ late = 0
  /\ settled = None

\* lines 87-90: idx < tries, fn is invoked and its promise is raced with a timer
RetryCall ==
  /\ rpc = "loop" /\ idx < tries
  /\ rpc' = "await"
  /\ calls' = calls + 1
  /\ UNCHANGED <<tries, idx, attempts, lastErr, late, settled>>
  /\ UNCHANGED <<analyzeVars, limiterVars, clientVars>>

\* line 98: the loop is over, lastErr is thrown
RetryThrow ==
  /\ rpc = "loop" /\ ~(idx < tries)
  /\ rpc' = "settled"
  /\ settled' = Some([kind |-> "rejected", val |-> lastErr])
  /\ UNCHANGED <<tries, idx, calls, attempts, lastErr, late>>
  /\ UNCHANGED <<analyzeVars, limiterVars, clientVars>>

\* lines 83, 90: the promise of fn fulfils before the timer; withRetry returns
FnFulfils ==
  /\ rpc = "await"
  /\ \E v \in FnValues :
       /\ attempts' = Append(attempts, [kind |-> "fulfilled", val |-> v])
       /\ settled' = Some([kind |-> "resolved", val |-> Some(v)])
  /\ rpc' = "settled"
  /\ UNCHANGED <<tries, idx, calls, lastErr, late>>
  /\ UNCHANGED <<analyzeVars, limiterVars, clientVars>>

\* lines 84, 91-92: the promise of fn rejects (or fn throws) before the timer
FnRejects ==
  /\ rpc = "await"
  /\ \E e \in FnErrors :
       /\ attempts' = Append(attempts, [kind |-> "rejected", val |-> e])
       /\ lastErr' = Some(e)
  /\ rpc' = "backoff"
  /\ UNCHANGED <<tries, idx, calls, late, settled>>
  /\ UNCHANGED <<analyzeVars, limiterVars, clientVars>>

\* the timer of withTimeout that leaves lastErr as it was
TimeoutFires_KeepsLastErr ==
  /\ rpc = "await"
  /\ attempts' = Append(attempts, [kind |-> "timeout", val |-> "timeout"])
  /\ late' = late + 1
  /\ rpc' = "backoff"
  /\ UNCHANGED <<tries, idx, calls, lastErr, settled>>
  /\ UNCHANGED <<analyzeVars, limiterVars, clientVars>>

\* lines 82, 91-92: the timer fires first; the promise of fn stays pending
TimeoutFires ==
  /\ rpc = "await"
  /\ attempts' = Append(attempts, [kind |-> "timeout", val |-> "timeout"])
  /\ lastErr' = Some("timeout")
  /\ late' = late + 1
  /\ rpc' = "backoff"
  /\ UNCHANGED <<tries, idx, calls, settled>>
  /\ UNCHANGED <<analyzeVars, limiterVars, clientVars>>

\* lines 95, 87: the backoff timer fires, idx++
BackoffElapsed ==
  /\ rpc = "backoff"
  /\ idx' = idx + 1
  /\ rpc' = "loop"
  /\ UNCHANGED <<tries, calls, attempts, lastErr, late, settled>>
  /\ UNCHANGED <<analyzeVars, limiterVars, clientVars>>

\* lines 83-84: the promise of a timed-out attempt settles; resolve and
\* reject of the settled race promise do nothing
LateSettles ==
  /\ late > 0
  /\ late' = late - 1
  /\ UNCHANGED <<tries, idx, rpc, calls, attempts, lastErr, settled>>
  /\ UNCHANGED <<analyzeVars, limiterVars, clientVars>>

(***************************************************************************)
(* The client page (part_002, Home).  An image is named by the file or by  *)
(* the trimmed link; result and yoloBoxes carry the image they describe.   *)
(***************************************************************************)
Files == {"a.jpg", "b.jpg"}
Links == {"", " ", "http://x/1.jpg"}
Samples == {"http://sample/1.jpg"}

\* String.trim on the links of the model
Trim(u) == IF u = " " THEN "" ELSE u

\* the image the inputs select now ("" when none)
SelectedImage ==
  IF mode = "upload" THEN (IF file = None THEN "" ELSE file[1]) ELSE Trim(imageUrl)

Idle == [pc |-> "idle", image |-> ""]

ClientParked ==
  /\ mode = "upload"
  /\ file = None
  /\ imageUrl = ""
  /\ preview = ""
  /\ loading = FALSE
  /\ result = None
  /\ error = ""
  /\ yoloBoxes = None
  /\ inflight = Idle

\* lines 463-476: the initial useState values
ClientInit == ClientParked

\* lines 495-498
switchMode ==
  /\ \E next \in {"upload", "url"} :
       /\ mode' = next
       /\ IF next = "upload" THEN imageUrl' = "" /\ UNCHANGED file
                             ELSE file' = None /\ UNCHANGED imageUrl
  /\ result' = None /\ error' = "" /\ preview' = ""
  /\ UNCHANGED <<loading, yoloBoxes, inflight>>
  /\ UNCHANGED <<analyzeVars, limiterVars, retryVars>>

\* lines 500-503; the file input is rendered in upload mode only (710-713)
onFile ==
  /\ mode = "upload"
  /\ \E f \in {None} \cup {Some(n) : n \in Files} :
       /\ file' = f
       /\ preview' = IF f = None THEN "" ELSE f[1]
  /\ result' = None /\ error' = ""
  /\ UNCHANGED <<mode, imageUrl, loading, yoloBoxes, inflight>>
  /\ UNCHANGED <<analyzeVars, limiterVars, retryVars>>

\* lines 505-507; the link input is rendered in url mode only (714-717)
onUrlChange ==
  /\ mode = "url"
  /\ \E val \in Links :
       /\ imageUrl' = val
       /\ preview' = val
  /\ result' = None /\ error' = ""
  /\ UNCHANGED <<mode, file, loading, yoloBoxes, inflight>>
  /\ UNCHANGED <<analyzeVars, limiterVars, retryVars>>

\* lines 648-650
selectSample ==
  /\ \E url \in Samples :
       /\ imageUrl' = url
       /\ preview' = url
  /\ mode' = "url"
  /\ result' = None /\ error' = ""
  /\ UNCHANGED <<file, loading, yoloBoxes, inflight>>
  /\ UNCHANGED <<analyzeVars, limiterVars, retryVars>>

\* lines 509-531, up to the first await; the submit button is disabled
\* while loading or without a selection (line 719).  A blank link returns
\* at once through the finally block.
handleSubmit ==
  /\ ~loading
  /\ IF mode = "upload" THEN file # None ELSE imageUrl # ""
  /\ result' = None
  /\ yoloBoxes' = None
  /\ IF mode = "upload"
       THEN /\ inflight' = [pc |-> "compress", image |-> file[1]]
            /\ loading' = TRUE
            /\ error' = ""
     ELSE IF Trim(imageUrl) = ""
       THEN /\ inflight' = Idle
            /\ loading' = FALSE
            /\ error' = "Please paste an image link to analyze."
     ELSE /\ inflight' = [pc |-> "detect", image |-> Trim(imageUrl)]
          /\ loading' = TRUE
          /\ error' = ""
  /\ UNCHANGED <<mode, file, imageUrl, preview>>
  /\ UNCHANGED <<analyzeVars, limiterVars, retryVars>>

\* lines 518-519: compress and fileToDataUrl are done; /api/detect is called
CompressDone ==
  /\ inflight.pc = "compress"
  /\ inflight' = [inflight EXCEPT !.pc = "detect"]
  /\ UNCHANGED <<mode, file, imageUrl, preview, loading, result, error, yoloBoxes>>
  /\ UNCHANGED <<analyzeVars, limiterVars, retryVars>>

\* lines 531-548: /api/detect answered
DetectReplies ==
  /\ inflight.pc = "detect"
  /\ \E reply \in {"not ok", "not a vehicle", "boxes", "no boxes"} :
       IF reply \in {"not ok", "not a vehicle"}
         THEN /\ error' = reply
              /\ loading' = FALSE
              /\ inflight' = Idle
              /\ UNCHANGED yoloBoxes
         ELSE /\ yoloBoxes' = IF reply = "boxes" THEN Some(inflight.image) ELSE None
              /\ inflight' = [inflight EXCEPT !.pc = "analyze"]
              /\ UNCHANGED <<error, loading>>
  /\ UNCHANGED <<mode, file, imageUrl, preview, result>>
  /\ UNCHANGED <<analyzeVars, limiterVars, retryVars>>

\* lines 559-571, 574-576: /api/analyze answered
AnalyzeReplies ==
  /\ inflight.pc = "analyze"
  /\ \E reply \in {"not ok", "no vehicle", "payload"} :
       IF reply = "payload"
         THEN /\ result' = Some(inflight.image)
              /\ UNCHANGED error
         ELSE /\ error' = reply
              /\ UNCHANGED result
  /\ loading' = FALSE
  /\ inflight' = Idle
  /\ UNCHANGED <<mode, file, imageUrl, preview, yoloBoxes>>
  /\ UNCHANGED <<analyzeVars, limiterVars, retryVars>>

\* lines 572-576: compress, fetch or json() throws; catch, then finally
SubmitThrows ==
  /\ inflight.pc \in {"compress", "detect", "analyze"}
  /\ error' = "We could not process that image or link."
  /\ loading' = FALSE
  /\ inflight' = Idle
  /\ UNCHANGED <<mode, file, imageUrl, preview, result, yoloBoxes>>
  /\ UNCHANGED <<analyzeVars, limiterVars, retryVars>>

Init ==
  /\ policy \in Policies
  /\ pc = "idle"
  /\ yoloSeeds = <<>>
  /\ rawItems = <<>>
  /\ itemsFinal = <<>>
  /\ uniqueParts = {}
  /\ partsPriceMap = EmptyMap
  /\ response = [kind |-> "none"]
  /\ LimiterParked /\ RetryParked /\ ClientParked

\* lines 422-454: the form is read; no image or a bad URL is answered at once
Receive ==
  /\ pc = "idle"
  /\ \E image \in {"ok", "none", "badurl"}, seedsRaw \in SeedInputs :
       /\ yoloSeeds' = SelectSeq(seedsRaw, isYoloSeed)
       /\ IF image = "none"
            THEN pc' = "done" /\ response' = ErrorResponse("E_NO_IMAGE", 400)
          ELSE IF image = "badurl"
            THEN pc' = "done" /\ response' = ErrorResponse("E_BAD_URL", 400)
          ELSE pc' = "vision" /\ response' = [kind |-> "none"]
  /\ UNCHANGED <<policy, rawItems, itemsFinal, uniqueParts, partsPriceMap>>
  /\ UNCHANGED <<limiterVars, retryVars, clientVars>>

\* lines 488-504, 626-630: the vision call (or getOpenAI) throws
VisionThrows ==
  /\ pc = "vision"
  /\ pc' = "done"
  /\ response' = ErrorResponse("E_SERVER", 500)
  /\ UNCHANGED <<policy, yoloSeeds, rawItems, itemsFinal, uniqueParts, partsPriceMap>>
  /\ UNCHANGED <<limiterVars, retryVars, clientVars>>

\* lines 506-512: the content is not JSON
VisionNotJson ==
  /\ pc = "vision"
  /\ pc' = "done"
  /\ response' = ErrorResponse("E_MODEL_JSON", 502)
  /\ UNCHANGED <<policy, yoloSeeds, rawItems, itemsFinal, uniqueParts, partsPriceMap>>
  /\ UNCHANGED <<limiterVars, retryVars, clientVars>>

\* lines 514-590: the content is JSON; rawList is its damage_items ([] when
\* it has none).  Without dynamic pricing, or with nothing to price,
\* pricePartsDynamicOnce returns {} and the handler runs to its end.
VisionReplies ==
  /\ pc = "vision"
  /\ \E rawList \in RawListsFor(yoloSeeds) :
       LET items == ItemsFinal(rawList, yoloSeeds)
           names == UniqueParts(items)
       IN /\ rawItems' = rawList
          /\ itemsFinal' = items
          /\ uniqueParts' = names
          /\ IF policy.PARTS_DYNAMIC /\ names # {}
               THEN pc' = "pricing" /\ UNCHANGED <<partsPriceMap, response>>
               ELSE /\ pc' = "done"
                    /\ partsPriceMap' = EmptyMap
                    /\ response' = Payload(items, EmptyMap)
  /\ UNCHANGED <<policy, yoloSeeds>>
  /\ UNCHANGED <<limiterVars, retryVars, clientVars>>

\* a failure of the pricing call reaching the handler's catch
PricingAnswers_FailureIsError ==
  /\ pc = "pricing"
  /\ \E reply \in PricingReplies(uniqueParts) :
       /\ partsPriceMap' = PriceMapOf(reply)
       /\ response' = IF reply.ok THEN Payload(itemsFinal, PriceMapOf(reply))
                       ELSE ErrorResponse("E_SERVER", 500)
  /\ pc' = "done"
  /\ UNCHANGED <<policy, yoloSeeds, rawItems, itemsFinal, uniqueParts>>
  /\ UNCHANGED <<limiterVars, retryVars, clientVars>>

\* lines 198-221, 592-625: the pricing model answered (or failed)
PricingAnswers ==
  /\ pc = "pricing"
  /\ \E reply \in PricingReplies(uniqueParts) :
       /\ partsPriceMap' = PriceMapOf(reply)
       /\ response' = Payload(itemsFinal, PriceMapOf(reply))
  /\ pc' = "done"
  /\ UNCHANGED <<policy, yoloSeeds, rawItems, itemsFinal, uniqueParts>>
  /\ UNCHANGED <<limiterVars, retryVars, clientVars>>

\* nothing persists across requests
NextRequest ==
  /\ pc = "done"
  /\ pc' = "idle"
  /\ yoloSeeds' = <<>>
  /\ rawItems' = <<>>
  /\ itemsFinal' = <<>>
  /\ uniqueParts' = {}
  /\ partsPriceMap' = EmptyMap
  /\ response' = [kind |-> "none"]
  /\ UNCHANGED policy
  /\ UNCHANGED <<limiterVars, retryVars, clientVars>>

Next ==
  \/ Receive
  \/ VisionThrows
  \/ VisionNotJson
  \/ VisionReplies
  \/ PricingAnswers
  \/ NextRequest

Spec == Init /\ [][Next]_vars

(***************************************************************************)
(* The specifications of the three other components.  Each keeps POST      *)
(* /api/analyze idle.                                                      *)
(***************************************************************************)
AnalyzeParked ==
  /\ policy = DefaultPolicy
  /\ pc = "idle"
  /\ yoloSeeds = <<>>
  /\ rawItems = <<>>
  /\ itemsFinal = <<>>
  /\ uniqueParts = {}
  /\ partsPriceMap = EmptyMap
  /\ response = [kind |-> "none"]

LimiterSpecInit == AnalyzeParked /\ LimiterInit /\ RetryParked /\ ClientParked

LimiterNext ==
  \/ LimiterRequest
  \/ LimiterTick

LimiterSpec == LimiterSpecInit /\ [][LimiterNext]_vars

RetrySpecInit == AnalyzeParked /\ LimiterParked /\ RetryInit /\ ClientParked

RetryNext ==
  \/ RetryCall
  \/ RetryThrow
  \/ FnFulfils
  \/ FnRejects
  \/ TimeoutFires
  \/ BackoffElapsed
  \/ LateSettles

\* the event loop runs every continuation and fires every timer; fn's
\* promise need not settle
RetryFairness ==
  /\ WF_vars(RetryCall)
  /\ WF_vars(RetryThrow)
  /\ WF_vars(TimeoutFires)
  /\ WF_vars(BackoffElapsed)

RetrySpec == RetrySpecInit /\ [][RetryNext]_vars /\ RetryFairness

ClientSpecInit == AnalyzeParked /\ LimiterParked /\ RetryParked /\ ClientInit

ClientNext ==
  \/ switchMode
  \/ onFile
  \/ onUrlChange
  \/ selectSample
  \/ handleSubmit
  \/ CompressDone
  \/ DetectReplies
  \/ AnalyzeReplies
  \/ SubmitThrows

ClientSpec == ClientSpecInit /\ [][ClientNext]_vars


(***************************************************************************)
(* Properties.  They are stated on the payload the handler returned.       *)
(***************************************************************************)
Answered == pc = "done" /\ response.kind = "payload"
Obs == response.damage_items
Est == response.estimate

\* maximum severity over the observations, 0 when there are none
MaxSeverity ==
  IF Len(Obs) = 0 THEN 0
  ELSE CHOOSE m \in {Obs[i].severity : i \in 1..Len(Obs)} :
         \A j \in 1..Len(Obs) : Obs[j].severity <= m

\* the weighted mean of the confidences, weights 1 + 0.2 * (severity - 1),
\* is at least t (0.5 stands for the mean of no observations)
MeanConfidenceAtLeast(t) ==
  IF Len(Obs) = 0 THEN 50 >= t
  ELSE SumSeq([i \in 1..Len(Obs) |->
                 (50 + (Obs[i].severity - 10)) * (Obs[i].confidence - t)]) >= 0

SeverityWithinAuto == MaxSeverity <= policy.AUTO_MAX_SEVERITY
CostWithinAuto == JLe(Est.cost_high, Num(policy.AUTO_MAX_COST))
ConfidenceWithinAuto == MeanConfidenceAtLeast(policy.AUTO_MIN_CONF)
SpecialistApplies ==
  MaxSeverity >= policy.SPEC_MIN_SEVERITY \/ JGe(Est.cost_high, Num(policy.SPEC_MIN_COST))

\* C1: the decision is AUTO-APPROVE if and only if max severity <=
\* autoMaxSeverity and cost_high <= autoMaxCost and aggregate confidence >=
\* autoMinConfidence all hold; one of them failing alone gives another label.
C1_AutoIffAllThree ==
  Answered =>
    (response.decision = "AUTO-APPROVE"
       <=> (SeverityWithinAuto /\ CostWithinAuto /\ ConfidenceWithinAuto))

\* C1 witness: severity and cost are within the AUTO limits, confidence alone
\* fails, and the label is not AUTO-APPROVE
C1_Witness_ConfidenceAloneFails ==
  /\ Answered
  /\ Len(Obs) > 0
  /\ SeverityWithinAuto /\ CostWithinAuto /\ ~ConfidenceWithinAuto
  /\ response.decision # "AUTO-APPROVE"

\* reachability of the other cases of C1
C1_Reach_Auto == Answered /\ Len(Obs) > 0 /\ response.decision = "AUTO-APPROVE"
C1_Reach_SeverityAloneFails ==
  Answered /\ ~SeverityWithinAuto /\ CostWithinAuto /\ ConfidenceWithinAuto
C1_Reach_CostAloneFails ==
  Answered /\ SeverityWithinAuto /\ ~CostWithinAuto /\ ConfidenceWithinAuto

\* C2: the label is the first match in the order AUTO-APPROVE, SPECIALIST,
\* INVESTIGATE, for every policy, also when the AUTO and SPECIALIST conditions
\* hold together.
C2_FirstMatchOrder ==
  Answered =>
    response.decision =
      (IF SeverityWithinAuto /\ CostWithinAuto /\ ConfidenceWithinAuto THEN "AUTO-APPROVE"
       ELSE IF SpecialistApplies THEN "SPECIALIST"
       ELSE "INVESTIGATE")

\* C2 witness: the AUTO and the SPECIALIST conditions both hold and the
\* label is AUTO-APPROVE
C2_Witness_OverlapGivesAuto ==
  /\ Answered
  /\ SeverityWithinAuto /\ CostWithinAuto /\ ConfidenceWithinAuto
  /\ SpecialistApplies
  /\ response.decision = "AUTO-APPROVE"

C2_Reach_Specialist == Answered /\ response.decision = "SPECIALIST"
C2_Reach_Investigate == Answered /\ response.decision = "INVESTIGATE" /\ Len(Obs) > 0
Rows == Est.breakdown.parts_detail
LineTotals == [i \in 1..Len(Rows) |-> Rows[i].line_total]
Subtotal ==
  JAdd(JAdd(JAdd(Num(Est.breakdown.labor), Num(Est.breakdown.paint)), Est.breakdown.parts),
       Est.breakdown.contingency)
\* every amount of the parts detail is a number
PartsAreNumbers ==
  /\ IsNum(Est.breakdown.parts)
  /\ \A i \in 1..Len(Rows) :
       IsNum(Rows[i].qty) /\ IsNum(Rows[i].unit_price) /\ IsNum(Rows[i].line_total)

\* C3: breakdown.parts equals the sum of line_total over breakdown.parts_detail
\* (0 without rows) and every row has line_total = qty * unit_price.  The
\* amounts are compared as JavaScript values: a total that is NaN is the sum
\* of rows whose line_total is NaN.
C3_PartsEqualsDetailSum ==
  Answered =>
    /\ Est.breakdown.parts = JSumSeq(LineTotals)
    /\ Len(Rows) = 0 => Est.breakdown.parts = Num(0)
    /\ \A i \in 1..Len(Rows) : Rows[i].line_total = JMul(Rows[i].qty, Rows[i].unit_price)

\* C3 witness: two rows, one of them with quantity 2 or more
C3_Witness_SeveralRows ==
  /\ Answered
  /\ PartsAreNumbers
  /\ Len(Rows) >= 2
  /\ \E i \in 1..Len(Rows) : JGe(Rows[i].qty, Num(2))

C3_Reach_NotNumeric == Answered /\ ~PartsAreNumbers
C3_Reach_NoRows == Answered /\ Len(Obs) > 0 /\ Len(Rows) = 0

\* C4: cost_low = round(subtotal * (1 - v)) and cost_high = round(subtotal *
\* (1 + v)), with subtotal = labor + paint + parts + contingency and v the
\* variance of the run.
C4_BandFromSubtotal ==
  Answered =>
    /\ Est.cost_low = JRound(JMul(Subtotal, Num(100 - Est.assumptions.variance)), 100)
    /\ Est.cost_high = JRound(JMul(Subtotal, Num(100 + Est.assumptions.variance)), 100)

\* C4 witness: labor, paint, parts and contingency are all positive
C4_Witness_AllComponents ==
  /\ Answered
  /\ Est.breakdown.labor > 0 /\ Est.breakdown.paint > 0
  /\ JGt(Est.breakdown.parts, Num(0)) /\ JGt(Est.breakdown.contingency, Num(0))
  /\ JGt(Est.cost_low, Num(0)) /\ JGt(Est.cost_high, Est.cost_low)

\* C5: the variance of the band is the severe percentage if and only if some
\* observation has severity >= 4 or the contingency amount is > 0, and the
\* base percentage otherwise.
SevereCase ==
  (\E i \in 1..Len(Obs) : Obs[i].severity >= 40) \/ JGt(Est.breakdown.contingency, Num(0))

C5_VarianceRule ==
  Answered =>
    LET v == IF SevereCase THEN policy.VARIANCE_SEVERE ELSE policy.VARIANCE_BASE
    IN /\ Est.assumptions.variance = v
       /\ IsNum(Subtotal) =>
            /\ Est.cost_low = JRound(JMul(Subtotal, Num(100 - v)), 100)
            /\ Est.cost_high = JRound(JMul(Subtotal, Num(100 + v)), 100)

\* C5 witness: one observation of severity 3 with labor 0 and parts 0; the
\* base percentage is used
C5_Witness_Severity3ZeroCost ==
  /\ Answered
  /\ Len(Obs) = 1 /\ Obs[1].severity = 30
  /\ Est.breakdown.labor = 0 /\ JEq(Est.breakdown.parts, Num(0))
  /\ Est.assumptions.variance = policy.VARIANCE_BASE
  /\ Est.breakdown.paint > 0

C5_Reach_SevereBySeverity ==
  Answered /\ (\E i \in 1..Len(Obs) : Obs[i].severity >= 40)
           /\ ~JGt(Est.breakdown.contingency, Num(0))
C5_Reach_SevereByContingency ==
  Answered /\ (\A i \in 1..Len(Obs) : Obs[i].severity < 40)
           /\ JGt(Est.breakdown.contingency, Num(0))

\* C6: the contingency percentage is min(contingencyMax, base + bonus), base
\* added iff some severity >= 3, bonus the front-heavy percentage if some
\* severity >= 4 observation has a zone starting with "front", else the
\* rear-heavy percentage likewise for "rear", else 0; the amount is
\* round((labor + parts) * percentage), paint not included.
SevereIn(Starts(_)) == \E i \in 1..Len(Obs) : Obs[i].severity >= 40 /\ Starts(Obs[i].zone)
ExpectedContPct ==
  LET base == IF \E i \in 1..Len(Obs) : Obs[i].severity >= 30 THEN policy.CONT_BASE ELSE 0
      bonus == IF SevereIn(StartsWithFront) THEN policy.CONT_FRONT_HEAVY
               ELSE IF SevereIn(StartsWithRear) THEN policy.CONT_REAR_HEAVY
               ELSE 0
  IN IF base + bonus > policy.CONT_MAX THEN policy.CONT_MAX ELSE base + bonus

C6_ContingencyRule ==
  Answered =>
    /\ Est.assumptions.contPct = ExpectedContPct
    /\ Est.breakdown.contingency =
         JRound(JMul(JAdd(Num(Est.breakdown.labor), Est.breakdown.parts),
                     Num(ExpectedContPct)), 100)

\* C6 witness: severe observations in a front and in a rear zone, only the
\* front-heavy percentage is added, and the paint is not in the base
C6_Witness_FrontAndRear ==
  /\ Answered
  /\ PartsAreNumbers
  /\ SevereIn(StartsWithFront) /\ SevereIn(StartsWithRear)
  /\ Est.assumptions.contPct = policy.CONT_BASE + policy.CONT_FRONT_HEAVY
  /\ Est.breakdown.paint > 0
  /\ JGt(Est.breakdown.contingency, Num(0))

C6_Reach_CapBinds ==
  Answered /\ PartsAreNumbers /\ Est.assumptions.contPct = policy.CONT_MAX
           /\ policy.CONT_BASE + policy.CONT_FRONT_HEAVY > policy.CONT_MAX
           /\ SevereIn(StartsWithFront)
C6_Reach_RearOnly ==
  Answered /\ ~SevereIn(StartsWithFront) /\ SevereIn(StartsWithRear)
           /\ Est.assumptions.contPct = policy.CONT_BASE + policy.CONT_REAR_HEAVY

\* C7: the normalized severity is one of 1..5: the input when the input is
\* an integer in 1..5, and 2 for every other JSON value.
C7_SeverityNormalized ==
  (Answered /\ Len(rawItems) > 0) =>
    \A i \in 1..Len(Obs) :
      LET r == rawItems[i].severity
      IN /\ Obs[i].severity \in {10, 20, 30, 40, 50}
         /\ Obs[i].severity =
              (IF IsSome(r) /\ Val(r) \in {10, 20, 30, 40, 50} THEN Val(r) ELSE 20)

C7_Reach_Default ==
  Answered /\ Len(rawItems) = 1 /\ rawItems[1].severity = Some(60) /\ Obs[1].severity = 20

\* C8: the normalized confidence lies in [0,1]: a numeric input is clamped
\* into [0,1], a missing or non-numeric input becomes 0.5; the confidence of
\* a detector seed is clamped likewise.
Clamped01(v) == IF v < 0 THEN 0 ELSE IF v > 100 THEN 100 ELSE v

C8_ConfidenceNormalized ==
  Answered =>
    /\ \A i \in 1..Len(Obs) : Obs[i].confidence >= 0 /\ Obs[i].confidence <= 100
    /\ Len(rawItems) > 0 =>
         \A i \in 1..Len(Obs) :
           Obs[i].confidence =
             (IF IsSome(rawItems[i].confidence)
                THEN Clamped01(Val(rawItems[i].confidence)) ELSE 50)
    /\ Len(rawItems) = 0 =>
         /\ Len(Obs) = Len(yoloSeeds)
         /\ \A i \in 1..Len(Obs) :
              Obs[i].confidence = Clamped01(Val(yoloSeeds[i].confidence))

\* C8 witness: a confidence of 1.7 was normalized to 1
C8_Witness_ClampedHigh ==
  /\ Answered
  /\ \E i \in 1..Len(rawItems) :
       rawItems[i].confidence = Some(170) /\ Obs[i].confidence = 100

C8_Reach_ClampedLow ==
  Answered /\ \E i \in 1..Len(rawItems) :
                rawItems[i].confidence = Some(-20) /\ Obs[i].confidence = 0
C8_Reach_Default ==
  Answered /\ \E i \in 1..Len(rawItems) :
                rawItems[i].confidence = None /\ Obs[i].confidence = 50
C8_Reach_SeedClamped ==
  Answered /\ Len(rawItems) = 0 /\ Len(Obs) > 0 /\ Obs[1].confidence = 100

\* C9: the normalized part, zone and damage_type are members of their enums.
C9_EnumsNormalized ==
  Answered =>
    \A i \in 1..Len(Obs) :
      Obs[i].part \in Part /\ Obs[i].zone \in Zone /\ Obs[i].damage_type \in DamageType

\* C10: after normalization every observation's est_labor_hours is >= 0, and
\* the roll-up sums no negative hours.
C10_LaborHoursNonNegative ==
  Answered =>
    /\ \A i \in 1..Len(Obs) : Obs[i].est_labor_hours >= 0
    /\ \A i \in 1..Len(Est.breakdown.lines) : Est.breakdown.lines[i].est_labor_hours >= 0

\* a price the guard promises for name: a number that is a positive integer,
\* inside the band of a registered family, at least the global floor (50)
\* for any other name
GuardedFor(name, price) ==
  /\ IsNum(price)
  /\ price[1] >= 1
  /\ IF TrimLower(name) \in BandNames
       THEN /\ price[1] >= PART_BANDS(TrimLower(name)).min
            /\ price[1] <= PART_BANDS(TrimLower(name)).max
       ELSE price[1] >= 50

\* C11: for every part name and every proposed price (positive, zero,
\* negative, fractional, or not a number) guardPartPrice returns a positive
\* integer inside the band of a registered family and at least the global
\* floor for any other name.  The prices of the dynamic map are the results
\* of the guard for the returned keys and prices.
C11_GuardReturnsBandedPrice ==
  \A n \in OwnKeys(partsPriceMap) : GuardedFor(n, Val(partsPriceMap[n]))

C11_Reach_ClampedToBandMax ==
  /\ IsSome(partsPriceMap["clip"])
  /\ Val(partsPriceMap["clip"]) = Num(15)
C11_Reach_RaisedToFloor ==
  /\ IsSome(partsPriceMap["widget"])
  /\ Val(partsPriceMap["widget"]) = Num(50)
C11_Reach_NegativeRaised ==
  /\ IsSome(partsPriceMap["bumper"])
  /\ Val(partsPriceMap["bumper"]) = Num(250)

\* C12: a priced part whose name is neither a key of the dynamic price map
\* nor a registered family has the global floor (50) as its unit price.
C12_UnpriceableAtFloor ==
  Answered =>
    \A i \in 1..Len(Rows) :
      (~IsSome(partsPriceMap[Rows[i].name]) /\ Rows[i].name \notin BandNames)
        => Rows[i].unit_price = Num(50)

\* C13: every unit price of the estimate is a guarded price for its name,
\* with dynamic and with static pricing: each parts_detail row's unit_price,
\* and each line's parts_cost is a sum of such prices.
C13_UnitPricesGuarded ==
  Answered =>
    /\ \A i \in 1..Len(Rows) : GuardedFor(Rows[i].name, Rows[i].unit_price)
    /\ \A i \in 1..Len(Est.breakdown.lines) : IsNum(Est.breakdown.lines[i].parts_cost)

Lines == Est.breakdown.lines

\* the minor-dent rule applies to d: a side panel with a dent of severity <= 2
PdrApplies(d) ==
  d.part \in {"door", "fender", "quarter-panel"} /\ d.damage_type = "dent" /\ d.severity <= 20

\* C14: when the minor-dent rule applies to an observation its line carries
\* max(0.5, 0.6 * hours rounded to 2 decimals) hours and no paint, whatever
\* needs_paint said; in every other case the line carries the observation's
\* hours, and paint exactly when the observation needs paint.  The labor of
\* the estimate is computed from the lines' hours.
C14_MinorDentRule ==
  Answered =>
    /\ Len(Lines) = Len(Obs)
    /\ \A i \in 1..Len(Obs) :
         IF PdrApplies(Obs[i])
           THEN /\ Lines[i].est_labor_hours = Max(50, Round(60 * Obs[i].est_labor_hours, 100))
                /\ Lines[i].paint_cost = 0
           ELSE /\ Lines[i].est_labor_hours = Obs[i].est_labor_hours
                /\ (Lines[i].paint_cost > 0) <=> Obs[i].needs_paint
    /\ Est.breakdown.labor_pre_correction =
         Round(SumSeq([i \in 1..Len(Lines) |-> Lines[i].est_labor_hours]) * LABOR_RATE, 100)

\* C14 witness: door, dent, severity 1, 0.6 hours, needs_paint true gives a
\* line of 0.5 hours without paint
C14_Witness_FloorAndNoPaint ==
  /\ Answered
  /\ \E i \in 1..Len(Obs) :
       /\ Obs[i].part = "door" /\ Obs[i].damage_type = "dent" /\ Obs[i].severity = 10
       /\ Obs[i].est_labor_hours = 60 /\ Obs[i].needs_paint
       /\ Lines[i].est_labor_hours = 50 /\ Lines[i].paint_cost = 0

C14_Reach_ReducedAboveFloor ==
  /\ Answered
  /\ \E i \in 1..Len(Obs) : PdrApplies(Obs[i]) /\ Lines[i].est_labor_hours = 1200
C14_Reach_Severity3PassesThrough ==
  /\ Answered
  /\ \E i \in 1..Len(Obs) :
       /\ Obs[i].part = "fender" /\ Obs[i].damage_type = "dent" /\ Obs[i].severity = 30
       /\ Lines[i].est_labor_hours = Obs[i].est_labor_hours /\ Lines[i].paint_cost > 0

\* the names of a candidate list that are priced: trimmed and lowercased,
\* without the empty names and the names that contain "paint"
KeptNames(names) ==
  LET n == [i \in 1..Len(names) |-> TrimLower(names[i])]
      Keep(x) == x # "" /\ ~IncludesPaint(x)
  IN SelectSeq(n, Keep)

\* the sum of the unit prices of a list of names
PriceOfNames(names) ==
  JSumSeq([i \in 1..Len(names) |-> UnitPrice(partsPriceMap, names[i])])

\* C15: the priced candidates of an observation are its likely_parts; only
\* when that list is empty, severity >= 4 and the part is not "unknown" the
\* part itself is the one candidate; an observation with an empty list and
\* severity < 4 (or an unknown part) has no parts cost.  Candidates that
\* are empty after trimming or contain "paint" add nothing to the line's
\* parts cost and have no row in parts_detail.
C15_CandidateRule ==
  Answered =>
    /\ \A i \in 1..Len(Obs) :
         Lines[i].parts_cost =
           (IF Len(Obs[i].likely_parts) > 0
              THEN PriceOfNames(KeptNames(Obs[i].likely_parts))
            ELSE IF Obs[i].severity >= 40 /\ Obs[i].part # "unknown"
              THEN PriceOfNames(KeptNames(<<Obs[i].part>>))
            ELSE Num(0))
    /\ \A j \in 1..Len(Rows) :
         /\ Rows[j].name # "" /\ ~IncludesPaint(Rows[j].name)
         /\ \E i \in 1..Len(Obs) :
              \/ /\ Len(Obs[i].likely_parts) > 0
                 /\ \E k \in 1..Len(Obs[i].likely_parts) :
                      TrimLower(Obs[i].likely_parts[k]) = Rows[j].name
              \/ /\ Len(Obs[i].likely_parts) = 0
                 /\ Obs[i].severity >= 40
                 /\ Obs[i].part = Rows[j].name

\* C15 witness: likely_parts ["Paint Kit", "clip"] prices the clip only
C15_Witness_PaintDiscarded ==
  /\ Answered
  /\ \E i \in 1..Len(Obs) :
       /\ Obs[i].likely_parts = <<"Paint Kit", "clip">>
       /\ Lines[i].parts_cost = UnitPrice(partsPriceMap, "clip")
       /\ IsNum(Lines[i].parts_cost) /\ Lines[i].parts_cost[1] > 0
  /\ \A j \in 1..Len(Rows) : Rows[j].name # "paint kit"

C15_Reach_FallbackToPart ==
  /\ Answered
  /\ \E i \in 1..Len(Obs) :
       /\ Obs[i].likely_parts = <<>> /\ Obs[i].severity >= 40 /\ Obs[i].part = "door"
       /\ Lines[i].parts_cost = Num(500)
C15_Reach_NoFallbackBelow4 ==
  /\ Answered
  /\ \E i \in 1..Len(Obs) :
       /\ Obs[i].likely_parts = <<>> /\ Obs[i].severity = 30 /\ Obs[i].part = "bumper"
       /\ Lines[i].parts_cost = Num(0)
C15_Reach_ListWinsAtSeverity5 ==
  /\ Answered
  /\ \E i \in 1..Len(Obs) :
       /\ Obs[i].likely_parts = <<"widget", "  ">> /\ Obs[i].severity = 50
       /\ Obs[i].part = "bumper"
       /\ Lines[i].parts_cost = UnitPrice(partsPriceMap, "widget")

\* the candidates of an observation as C15 describes them, normalized and
\* filtered
ObsNames(d) ==
  KeptNames(IF Len(d.likely_parts) > 0 THEN d.likely_parts
            ELSE IF d.severity >= 40 /\ d.part # "unknown" THEN <<d.part>>
            ELSE <<>>)

\* a sequence without its repeated elements (first occurrences kept)
RECURSIVE Distinct(_)
Distinct(s) ==
  IF s = <<>> THEN <<>>
  ELSE LET front == Distinct(SubSeq(s, 1, Len(s) - 1))
       IN IF \E k \in 1..(Len(s) - 1) : s[k] = s[Len(s)]
            THEN front ELSE Append(front, s[Len(s)])

\* C16: a part's quantity in parts_detail counts each (observation, name)
\* pairing once: it is the number of observations that list the name, and a
\* line's parts cost has one unit price per distinct name of the
\* observation, however often the list repeats the name.  (Stated for the
\* rows whose quantity is a number.)
C16_QuantityPerPairing ==
  Answered =>
    /\ \A j \in 1..Len(Rows) :
         IsNum(Rows[j].qty) =>
           Rows[j].qty[1] =
             Cardinality({i \in 1..Len(Obs) :
                            \E k \in 1..Len(ObsNames(Obs[i])) :
                              ObsNames(Obs[i])[k] = Rows[j].name})
    /\ \A i \in 1..Len(Obs) :
         IsNum(Lines[i].parts_cost) =>
           Lines[i].parts_cost = PriceOfNames(Distinct(ObsNames(Obs[i])))

\* the quantity is the number of occurrences of the name in the candidate
\* lists, as the code counts it
C16_Reach_OccurrencesCounted ==
  /\ Answered
  /\ Len(Obs) = 1
  /\ Obs[1].likely_parts = <<" Bumper ", "bumper">>
  /\ \E j \in 1..Len(Rows) : Rows[j].name = "bumper" /\ Rows[j].qty = Num(2)

\* the observation is charged for paint: its needs_paint, unless the
\* minor-dent rule forces it to false
EffectiveNeedsPaint(d) == ~PdrApplies(d) /\ d.needs_paint

\* a light blend: damage type of the scratch/paint family and severity <= 2
LightBlend(d) ==
  (IncludesScratch(d.damage_type) \/ IncludesPaint(d.damage_type)) /\ d.severity <= 20

\* the per-panel charge of one observation, in dollars
PaintCharge(d) ==
  IF ~EffectiveNeedsPaint(d) THEN 0
  ELSE IF LightBlend(d) THEN Round(PAINT_PER_PANEL * BLEND_DISCOUNT, 100)
  ELSE PAINT_PER_PANEL

C17_Reach_ScratchSeverity3FullPrice ==
  /\ Answered
  /\ \E i \in 1..Len(Obs) :
       /\ Obs[i].damage_type = "scratch" /\ Obs[i].severity = 30
       /\ Lines[i].paint_cost = 300
C17_Reach_NoPaintNoCharge ==
  /\ Answered
  /\ Len(Obs) = 2
  /\ ~Obs[1].needs_paint /\ Obs[2].needs_paint
  /\ Est.breakdown.paint_units = 1

\* line i is charged for paint and no earlier charged line is on the same
\* panel (same zone and part)
FirstOnPanel(i) ==
  /\ Lines[i].paint_cost > 0
  /\ \A k \in 1..(i - 1) :
       ~(Lines[k].paint_cost > 0 /\ Lines[k].zone = Lines[i].zone
           /\ Lines[k].part = Lines[i].part)

\* C18: paint is charged per panel: breakdown.paint_units is the number of
\* distinct panels (zone and part) among the observations that need paint,
\* and a panel's paint cost enters breakdown.paint once.
C18_PaintUnitsDeduplicated ==
  Answered =>
    /\ Est.breakdown.paint_units = Cardinality({i \in 1..Len(Lines) : FirstOnPanel(i)})
    /\ Est.breakdown.paint =
         SumSeq([i \in 1..Len(Lines) |-> IF FirstOnPanel(i) THEN Lines[i].paint_cost ELSE 0])

\* two observations on the front bumper are charged as two panels
C18_Reach_SamePanelChargedTwice ==
  /\ Answered
  /\ Len(Lines) = 2
  /\ Lines[1].zone = "front" /\ Lines[1].part = "bumper"
  /\ Lines[2].zone = "front" /\ Lines[2].part = "bumper"
  /\ Est.breakdown.paint_units = 2
  /\ Est.breakdown.paint = 600

\* C19: for the empty observation list the estimate is all zeros (labor,
\* paint, parts, contingency, cost_low, cost_high) with the base variance,
\* the aggregate confidence is 0.5 and the maximum severity 0, and the
\* decision is AUTO-APPROVE when 0.5 reaches the policy's minimum confidence
\* and INVESTIGATE otherwise (INVESTIGATE under the default policy).
C19_EmptyListZeroEstimate ==
  (Answered /\ Obs = <<>>) =>
    /\ Est.breakdown.labor = 0 /\ Est.breakdown.labor_pre_correction = 0
    /\ Est.breakdown.paint = 0 /\ Est.breakdown.paint_units = 0
    /\ Est.breakdown.parts = Num(0)
    /\ Est.breakdown.contingency = Num(0)
    /\ Est.cost_low = Num(0) /\ Est.cost_high = Num(0)
    /\ Est.assumptions.variance = policy.VARIANCE_BASE
    /\ Est.breakdown.lines = <<>> /\ Est.breakdown.parts_detail = <<>>
    /\ aggregateConfidence(Obs).num = 50 * aggregateConfidence(Obs).den
    /\ MaxSeq([i \in 1..Len(Obs) |-> Obs[i].severity], 0) = 0
    /\ response.decision = (IF 50 >= policy.AUTO_MIN_CONF THEN "AUTO-APPROVE" ELSE "INVESTIGATE")
    /\ policy = DefaultPolicy => response.decision = "INVESTIGATE"

\* C19 witness: no observations under the default policy
C19_Witness_EmptyDefaultInvestigate ==
  /\ Answered
  /\ Obs = <<>>
  /\ policy = DefaultPolicy
  /\ Est.cost_high = Num(0)
  /\ response.decision = "INVESTIGATE"

C19_Reach_EmptyAutoApprove ==
  Answered /\ Obs = <<>> /\ response.decision = "AUTO-APPROVE"

\* the request of the scenario: default policy, one observation {bumper,
\* front, severity 5, broken, confidence 0.9, likely_parts ["bumper"]} whose
\* labor hours and needs_paint the vision model left out
SevereFrontBumper ==
  /\ Answered
  /\ policy = DefaultPolicy
  /\ Len(rawItems) = 1
  /\ rawItems[1].est_labor_hours = None /\ rawItems[1].needs_paint = None
  /\ Len(Obs) = 1
  /\ Obs[1].part = "bumper" /\ Obs[1].zone = "front" /\ Obs[1].severity = 50
  /\ Obs[1].damage_type = "broken" /\ Obs[1].confidence = 90
  /\ Obs[1].likely_parts = <<"bumper">>

\* C20: under the default policy the single severe front-bumper observation
\* yields labor_pre_correction 270, labor 378, paint 300, parts 500,
\* contingency 176 (20%), variance 25%, cost_low 1016, cost_high 1693 and
\* the decision SPECIALIST.
C20_SevereFrontBumperScenario ==
  SevereFrontBumper =>
    /\ Obs[1].est_labor_hours = 216
    /\ Obs[1].needs_paint
    /\ Est.breakdown.labor_pre_correction = 270
    /\ Est.breakdown.labor = 378
    /\ Est.breakdown.paint = 300
    /\ Est.breakdown.parts = Num(500)
    /\ Est.assumptions.contPct = 20
    /\ Est.breakdown.contingency = Num(176)
    /\ Est.assumptions.variance = 25
    /\ Est.cost_low = Num(1016)
    /\ Est.cost_high = Num(1693)
    /\ response.decision = "SPECIALIST"

\* C20 witness: the scenario was answered, with cost_high 1693
C20_Witness_ScenarioAnswered ==
  SevereFrontBumper /\ Est.cost_high = Num(1693) /\ response.decision = "SPECIALIST"

\* the degenerate observation of seed b, with confidence c
SeedObservation(b, c) ==
  [ zone |-> "unknown", part |-> "unknown", damage_type |-> "unknown", severity |-> 20,
    confidence |-> c, est_labor_hours |-> 80, needs_paint |-> FALSE,
    likely_parts |-> <<>>, bbox_rel |-> b.bbox_rel ]

\* when the model returned records, the observations are those records, one
\* each and with the record's box, and no seed contributes
NoSeedWithRecords ==
  Len(rawItems) > 0 =>
    /\ Len(Obs) = Len(rawItems)
    /\ \A i \in 1..Len(Obs) : Obs[i].bbox_rel = rawItems[i].bbox_rel

\* C21 as stated: seeds are observations only when the model's damage list
\* is empty, and then each valid seed is one observation with zone, part and
\* damage_type "unknown", severity 2, needs_paint false, the seed's
\* confidence, the seed's box, no likely_parts and hoursFor(unknown, 2) = 0.8
\* hours.
C21_SeedFallback_AsStated ==
  Answered =>
    /\ NoSeedWithRecords
    /\ Len(rawItems) = 0 =>
         /\ Len(Obs) = Len(yoloSeeds)
         /\ \A i \in 1..Len(Obs) :
              Obs[i] = SeedObservation(yoloSeeds[i], Val(yoloSeeds[i].confidence))

\* C21 amended: the same, with the seed's confidence clamped to [0,1].
C21_SeedFallback ==
  Answered =>
    /\ NoSeedWithRecords
    /\ Len(rawItems) = 0 =>
         /\ Len(Obs) = Len(yoloSeeds)
         /\ \A i \in 1..Len(Obs) :
              Obs[i] = SeedObservation(yoloSeeds[i], Clamped01(Val(yoloSeeds[i].confidence)))

\* C21 witness: an empty damage list and a valid seed of confidence 0.8
C21_Witness_SeedBecomesObservation ==
  /\ Answered
  /\ Len(rawItems) = 0
  /\ Len(yoloSeeds) = 1 /\ yoloSeeds[1].confidence = Some(80)
  /\ Len(Obs) = 1 /\ Obs[1].confidence = 80 /\ Obs[1].est_labor_hours = 80
  /\ Obs[1].bbox_rel = yoloSeeds[1].bbox_rel

C21_Reach_SeedsIgnoredWithRecords ==
  Answered /\ Len(yoloSeeds) > 0 /\ Len(rawItems) = 2 /\ Len(Obs) = 2
C21_Reach_SeedConfidenceClamped ==
  /\ Answered /\ Len(rawItems) = 0 /\ Len(yoloSeeds) = 1
  /\ yoloSeeds[1].confidence = Some(150) /\ Obs[1].confidence = 100

\* C22 as stated: once the image checks passed, whatever the vision and the
\* pricing model do, the request is answered with an estimate and a
\* decision, never with an error response.
C22_NeverAnError_AsStated ==
  (pc = "done" /\ response.kind = "error") =>
    response.error_code \in {"E_NO_IMAGE", "E_BAD_URL"}

\* every parts_detail row of the payload is priced at the static baseline
BaselinePrices(payload) ==
  \A j \in 1..Len(payload.estimate.breakdown.parts_detail) :
    payload.estimate.breakdown.parts_detail[j].unit_price =
      UnitPrice(EmptyMap, payload.estimate.breakdown.parts_detail[j].name)

\* C22 amended: a vision call that throws is answered with E_SERVER (500)
\* and a vision reply that is not JSON with E_MODEL_JSON (502); a JSON reply
\* of any shape is normalized to defaults and never answered with an error;
\* whatever the pricing model does (failure included) the request returns
\* an estimate and a decision, with the baseline prices when the pricing
\* call gave no price.
C22_DegradeOrReport ==
  [][ /\ (pc = "vision" /\ response'.kind = "error") =>
           /\ <<response'.error_code, response'.status>>
                \in {<<"E_SERVER", 500>>, <<"E_MODEL_JSON", 502>>}
           /\ rawItems' = <<>> /\ itemsFinal' = <<>>
      /\ (pc = "vision" /\ (Len(rawItems') > 0 \/ Len(itemsFinal') > 0)) =>
           response'.kind # "error"
      /\ pc = "pricing" =>
           /\ pc' = "done"
           /\ response'.kind = "payload"
           /\ response'.damage_items = itemsFinal
           /\ response'.decision \in {"AUTO-APPROVE", "INVESTIGATE", "SPECIALIST"}
           /\ OwnKeys(partsPriceMap') = {} => BaselinePrices(response')
    ]_vars

\* C22 witness: the pricing call was made and gave no price, and the
\* payload carries the baseline price
C22_Witness_PricingFailedBaseline ==
  /\ Answered
  /\ policy.PARTS_DYNAMIC
  /\ uniqueParts = {"bumper"}
  /\ OwnKeys(partsPriceMap) = {}
  /\ Len(Rows) = 1 /\ Rows[1].unit_price = Num(500)

C22_Reach_VisionThrewError ==
  pc = "done" /\ response.kind = "error" /\ response.error_code = "E_SERVER"
C22_Reach_VisionNotJsonError ==
  pc = "done" /\ response.kind = "error" /\ response.error_code = "E_MODEL_JSON"
C22_Reach_ShapelessRecordDefaults ==
  /\ Answered /\ Len(rawItems) = 1
  /\ rawItems[1].severity = None /\ rawItems[1].part = None /\ rawItems[1].damage_type = None
  /\ Obs[1].severity = 20 /\ Obs[1].part = "unknown"

\* the severities the normalizer can emit, among the values the model tries:
\* a number in [1,5] is kept, anything else becomes 2
EmittedSeverities ==
  {20} \cup {Val(v) : v \in {w \in SeverityValues : IsSome(w) /\ Val(w) >= 10 /\ Val(w) <= 50}}

\* the observation got its hours from hoursFor: the record had no numeric
\* est_labor_hours
DefaultHoursAt(i) == i \in 1..Len(rawItems) /\ rawItems[i].est_labor_hours = None

\* C23: the default labor hours are non-decreasing in severity over the
\* severities the normalizer can emit: an observation's default hours are at
\* least the default hours of its part at every lower severity and at most
\* those at every higher severity.
C23_HoursMonotoneInSeverity ==
  Answered =>
    \A i \in 1..Len(Obs) :
      DefaultHoursAt(i) =>
        \A s \in EmittedSeverities :
          /\ s <= Obs[i].severity => hoursFor(Obs[i].part, s) <= Obs[i].est_labor_hours
          /\ s >= Obs[i].severity => hoursFor(Obs[i].part, s) >= Obs[i].est_labor_hours

\* severity 2.5 gets the multiplier 1.8 of severity 5
C23_Reach_Severity25GetsTopMultiplier ==
  /\ Answered
  /\ \E i \in 1..Len(Obs) :
       /\ DefaultHoursAt(i) /\ Obs[i].part = "bumper" /\ Obs[i].severity = 25
       /\ Obs[i].est_labor_hours = 216

\* the confidences tried in the second run: 0, 0.5, 0.75, 1
AltConfidences == {0, 50, 75, 100}

\* the observations with their confidences replaced by alt
WithConfidences(items, alt) ==
  [i \in 1..Len(items) |-> [items[i] EXCEPT !.confidence = alt[i]]]

\* C24: a second run over the same observations and the same estimate that
\* differs only in the confidences gets the same decision, unless one of the
\* two decisions is AUTO-APPROVE: confidence never moves a request between
\* INVESTIGATE and SPECIALIST.
C24_ConfidenceOnlyGatesAuto ==
  Answered =>
    \A alt \in [1..Len(Obs) -> AltConfidences] :
      \/ routeDecision(WithConfidences(Obs, alt), Est, policy) = response.decision
      \/ routeDecision(WithConfidences(Obs, alt), Est, policy) = "AUTO-APPROVE"
      \/ response.decision = "AUTO-APPROVE"

\* C24 witness: a request answered INVESTIGATE that other confidences turn
\* into AUTO-APPROVE
C24_Witness_ConfidenceTurnsToAuto ==
  /\ Answered
  /\ Len(Obs) > 0
  /\ response.decision = "INVESTIGATE"
  /\ \E alt \in [1..Len(Obs) -> AltConfidences] :
       routeDecision(WithConfidences(Obs, alt), Est, policy) = "AUTO-APPROVE"

C24_Reach_SpecialistWhateverConfidence ==
  /\ Answered
  /\ Len(Obs) = 2
  /\ response.decision = "SPECIALIST"
  /\ \A alt \in [1..Len(Obs) -> AltConfidences] :
       routeDecision(WithConfidences(Obs, alt), Est, policy) = "SPECIALIST"

\* C27: in every payload 0 <= cost_low <= cost_high and labor, paint, parts
\* and contingency are all >= 0 (as comparisons of JavaScript numbers).
C27_AmountsNonNegative ==
  Answered =>
    /\ JLe(Num(0), Est.cost_low)
    /\ JLe(Est.cost_low, Est.cost_high)
    /\ Est.breakdown.labor >= 0
    /\ Est.breakdown.paint >= 0
    /\ JLe(Num(0), Est.breakdown.parts)
    /\ JLe(Num(0), Est.breakdown.contingency)

C27_Reach_NegativeLabor ==
  /\ Answered /\ Len(Obs) = 1
  /\ Obs[1].est_labor_hours = -300
  /\ Est.breakdown.labor = -525
  /\ Est.cost_low = Num(-446)

\* C28: the sum of parts_cost over breakdown.lines equals breakdown.parts
\* (as numbers), so the total recomputed from parts_detail never differs
\* from the running total.
C28_LinesSumToParts ==
  Answered =>
    JEq(JSumSeq([i \in 1..Len(Lines) |-> Lines[i].parts_cost]), Est.breakdown.parts)

C28_Reach_SeveralLinesAgree ==
  /\ Answered /\ Len(Lines) = 2
  /\ JGt(Lines[1].parts_cost, Num(0)) /\ JGt(Lines[2].parts_cost, Num(0))
  /\ JEq(JAdd(Lines[1].parts_cost, Lines[2].parts_cost), Est.breakdown.parts)

\* C29 as stated: whenever the minor-dent rule applies and the observation's
\* hours are not negative, the line's hours are at most the observation's.
C29_PdrOnlyReduces_AsStated ==
  Answered =>
    \A i \in 1..Len(Obs) :
      (PdrApplies(Obs[i]) /\ Obs[i].est_labor_hours >= 0) =>
        Lines[i].est_labor_hours <= Obs[i].est_labor_hours

\* C29 amended: whenever the minor-dent rule applies, the line's hours are
\* at most the observation's when those are at least 0.5, and are raised to
\* the floor 0.5 when they are below it.
C29_PdrReducesAboveFloor ==
  Answered =>
    \A i \in 1..Len(Obs) :
      PdrApplies(Obs[i]) =>
        IF Obs[i].est_labor_hours >= 50
          THEN /\ Lines[i].est_labor_hours <= Obs[i].est_labor_hours
               /\ Lines[i].est_labor_hours >= 50
          ELSE Lines[i].est_labor_hours = 50

\* C29 witness: 20 hours on a door dent of severity 1 are reduced to 12
C29_Witness_Reduced ==
  /\ Answered
  /\ \E i \in 1..Len(Obs) :
       /\ PdrApplies(Obs[i]) /\ Obs[i].est_labor_hours = 2000
       /\ Lines[i].est_labor_hours = 1200

C29_Reach_ZeroHoursRaised ==
  /\ Answered
  /\ \E i \in 1..Len(Obs) :
       PdrApplies(Obs[i]) /\ Obs[i].est_labor_hours = 0 /\ Lines[i].est_labor_hours = 50

\* the stored state of an ip: count and resetAt, 0 and 0 for an absent key
StateOf(m, ip) == IF m[ip] = None THEN [count |-> 0, resetAt |-> 0] ELSE m[ip][1]

\* C25, the counts: no stored count and no number of requests accepted in
\* one window exceeds maxRequests.
C25_Counts ==
  \A ip \in IPs :
    /\ StateOf(map, ip).count <= maxRequests
    /\ accepted[ip] <= maxRequests

\* C25, one request of ip: nothing of another ip changes; at or after
\* resetAt (or for a new ip) it is accepted and opens the window
\* [now, now + windowMs); after maxRequests accepted requests and before
\* resetAt it is rejected with 429 and a Retry-After >= 0 and leaves count
\* and resetAt as they were.
C25_Request ==
  (now' = now /\ limited' # None) =>
    LET r == limited'[1]
        s == StateOf(map, r.ip)
    IN /\ \A o \in IPs \ {r.ip} : map'[o] = map[o] /\ accepted'[o] = accepted[o]
       /\ (map[r.ip] = None \/ now >= s.resetAt) =>
            /\ r.ok
            /\ map'[r.ip] = Some([count |-> 1, resetAt |-> now + windowMs])
       /\ (map[r.ip] # None /\ now < s.resetAt /\ accepted[r.ip] >= maxRequests) =>
            /\ ~r.ok
            /\ r.res # None /\ r.res[1].status = 429 /\ r.res[1].retryAfter >= 0
            /\ map'[r.ip] = map[r.ip]
       /\ (map[r.ip] # None /\ now < s.resetAt /\ accepted[r.ip] < maxRequests) =>
            /\ r.ok
            /\ map'[r.ip] = Some([count |-> s.count + 1, resetAt |-> s.resetAt])

\* C25: for a limiter with maxRequests >= 1, after any sequence of requests
\* from any clients, each ip's count stays <= maxRequests, at most
\* maxRequests of its requests are accepted per window, every further one
\* before resetAt is rejected with 429 and Retry-After >= 0 without changing
\* count or resetAt, the first one at or after resetAt is accepted and opens
\* a new window, and no request changes another ip's state.
C25_RateLimiter == []C25_Counts /\ [][C25_Request]_vars

\* C25 witness: the third request of 10.0.0.1 in a window of two is rejected
\* while 10.0.0.2 has a window of its own
C25_Witness_RejectedInFullWindow ==
  /\ maxRequests = 2
  /\ limited # None /\ ~limited[1].ok /\ limited[1].ip = "10.0.0.1"
  /\ limited[1].res[1].status = 429 /\ limited[1].res[1].retryAfter = 1
  /\ StateOf(map, "10.0.0.1").count = 2 /\ accepted["10.0.0.1"] = 2
  /\ map["10.0.0.2"] # None /\ StateOf(map, "10.0.0.2").count = 1

C25_Reach_NewWindowAtResetAt ==
  /\ windowMs = 1000 /\ now = 1000
  /\ limited # None /\ limited[1].ok /\ limited[1].ip = "0.0.0.0"
  /\ map["0.0.0.0"] = Some([count |-> 1, resetAt |-> 2000])
  /\ map["10.0.0.1"] = Some([count |-> 1, resetAt |-> 1000])

C25_Reach_RetryAfterRoundedUp ==
  /\ windowMs = 1500 /\ now = 0
  /\ limited # None /\ ~limited[1].ok /\ limited[1].res[1].retryAfter = 2

\* the attempts that ended so far all failed (rejected or timed out)
AllFailed(as) == \A k \in 1..Len(as) : as[k].kind \in {"rejected", "timeout"}

\* C26, the state of withRetry: fn was invoked at most `tries` times; a
\* resolved promise carries the value of the first fulfilled attempt, which
\* is the last invocation; a rejected one follows `tries` failed attempts
\* and carries the error of the last of them.
C26_Outcome ==
  /\ calls <= tries
  /\ Len(attempts) <= calls
  /\ (settled # None /\ settled[1].kind = "resolved") =>
       /\ attempts # <<>>
       /\ Len(attempts) = calls
       /\ attempts[Len(attempts)].kind = "fulfilled"
       /\ settled[1].val = Some(attempts[Len(attempts)].val)
       /\ AllFailed(SubSeq(attempts, 1, Len(attempts) - 1))
  /\ (settled # None /\ settled[1].kind = "rejected") =>
       /\ AllFailed(attempts)
       /\ Len(attempts) = calls /\ calls = tries
       /\ attempts # <<>> => settled[1].val = Some(attempts[Len(attempts)].val)

\* C26, the steps of withRetry: fn is invoked again only after the attempt
\* before it failed and its backoff elapsed, and never after settling.
C26_Step ==
  /\ calls' # calls =>
       /\ calls' = calls + 1
       /\ settled = None
       /\ Len(attempts) = calls /\ AllFailed(attempts)
       /\ idx = calls /\ rpc = "loop"
  /\ settled # None => settled' = settled

\* C26: withRetry invokes fn at most `tries` times, each attempt after the
\* first only once the one before it rejected or timed out and the backoff
\* elapsed; it resolves with the value of the first attempt that fulfils in
\* time and invokes fn no more; when every attempt fails it rejects with the
\* last attempt's error; and under fair timers it always settles, even when
\* fn's promise never does.
C26_WithRetry == []C26_Outcome /\ [][C26_Step]_vars /\ <>(settled # None)

\* C26 witness: two attempts failed (a rejection, then a timeout whose
\* promise is still pending), the third fulfilled and its value is returned
C26_Witness_ThirdAttemptFulfils ==
  /\ tries = 3 /\ calls = 3 /\ late = 1
  /\ attempts = <<[kind |-> "rejected", val |-> "e1"], [kind |-> "timeout", val |-> "timeout"], [kind |-> "fulfilled", val |-> "v2"]>>
  /\ settled = Some([kind |-> "resolved", val |-> Some("v2")])

C26_Reach_RejectsWithLastError ==
  /\ tries = 2 /\ calls = 2
  /\ attempts = <<[kind |-> "rejected", val |-> "e1"], [kind |-> "timeout", val |-> "timeout"]>>
  /\ settled = Some([kind |-> "rejected", val |-> Some("timeout")])

C26_Reach_NoTriesRejectsUndefined ==
  /\ tries = 0 /\ calls = 0
  /\ settled = Some([kind |-> "rejected", val |-> None])

\* C30: in the client page a displayed result (and the overlay boxes a
\* running submit has set) always belongs to the currently selected image,
\* under any interleaving of handleSubmit with onFile, onUrlChange,
\* switchMode and selectSample; and loading is false whenever no submit is
\* running.
C30_ResultOfSelectedImage ==
  /\ result # None => result[1] = SelectedImage
  /\ (yoloBoxes # None /\ inflight.pc = "analyze") => yoloBoxes[1] = SelectedImage
  /\ inflight.pc = "idle" => ~loading

\* a.jpg was submitted, b.jpg was chosen while the request was in flight,
\* and the late reply displays the result of a.jpg
C30_Reach_StaleResultShown ==
  /\ mode = "upload" /\ file = Some("b.jpg") /\ preview = "b.jpg"
  /\ inflight.pc = "idle" /\ ~loading
  /\ result = Some("a.jpg") /\ yoloBoxes = Some("a.jpg")

C30_Reach_BlankLinkSubmitted ==
  /\ mode = "url" /\ imageUrl = " "
  /\ ~loading /\ inflight.pc = "idle"
  /\ error = "Please paste an image link to analyze."

\* whenever no submit is running, loading is false
C30_LoadingFalseWhenIdle == inflight.pc = "idle" => ~loading
====
